---- MODULE Spec2Model ----
(***************************************************************************)
(* Model of the ICMP engine of aio-nettools (src/aionettools/ping/ping.py) *)
(* as a state machine over the asyncio event loop: the Ping object, the    *)
(* PingResult objects it issued, the loop's reader/writer registrations,   *)
(* its timer handles and its queue of call_soon callbacks; and of one NDT7 *)
(* session (src/aionettools/ndt7/ndt7.py, NDT7.handle_websocket): its      *)
(* three tasks, the measurements queue and the generator that drains it;   *)
(* of ping_pretty (src/aionettools/ping/ping_main.py) feeding one          *)
(* PingStatistics (src/aionettools/ping/ping_stats.py); and of one         *)
(* NDT7Statistics (src/aionettools/ndt7/ndt7_stats.py).                    *)
(***************************************************************************)
EXTENDS Integers, Sequences, FiniteSets, TLC

VARIABLES
    echo_seq,        \* Ping.echo_seq
    results,         \* the PingResult objects created by ping(), by identity (index)
    pending_pings,   \* Ping.pending_pings: insertion-ordered dict key -> PingResult
    pending_sends,   \* Ping.pending_sends: family -> list of (packet, addr, result)
    readers,         \* families whose socket has a reader registered in the loop
    writers,         \* families whose socket has a writer registered in the loop
    closed,          \* TRUE once __aexit__ has closed the sockets
    timeout_handle,  \* per PingResult: the TimerHandle of loop.call_later
    ready,           \* the loop's FIFO of done-callbacks scheduled by Future.set_result
    pop_count,       \* per PingResult: entries its done-callback removed from pending_pings
    now,             \* the monotonic clock read by timer()
    last             \* how the last handler ended when it raised or discarded its input

\* One NDT7 session, NDT7.handle_websocket(websocket, direction, role, max_duration)
VARIABLES
    role,               \* the role argument
    direction,          \* the direction argument
    websocket,          \* the connection: "open", "closed_ok" or "closed_error"
    tasks,              \* state of the three tasks of the list `tasks`
    call_soon,          \* the loop's FIFO of handles for the session's tasks
    transferred_bytes,  \* the nonlocal transferred_bytes
    msg,                \* len(msg), the payload buffer of producer_handler
    next_measurement,   \* next_measurement of producer_handler, relative to start
    sleeping,           \* producer_handler is inside asyncio.sleep(time_until_measurement)
    measurements_queue, \* the asyncio.Queue drained by the generator
    generator,          \* where the generator handle_websocket stands
    measurement,        \* the generator's variable `measurement`: the item it got last
    enqueued,           \* per handler, the number of measurements it has enqueued
    yielded,            \* per handler, the number of its measurements yielded so far
    sent,               \* number of binary and of text messages passed to websocket.send
    doublings,          \* how many times `msg *= 2` has run
    received,           \* number of messages consumer_handler has taken
    message,            \* the message consumer_handler took last
    produced,           \* what the last iteration of producer_handler did
    elapsed,            \* timer() - start, in measurement periods
    bandwidth,          \* binary messages websocket.send accepts before it blocks for good
    peer_sends          \* messages the peer sends before it falls silent

\* ping_pretty(hostnames, count, duration, interval, window, timeout, flood) and the
\* PingStatistics it feeds
VARIABLES
    args,               \* the arguments of ping_pretty, or of the caller's PingStatistics
    hostnames,          \* set(hostnames), in the order the set iterates
    host_addr,          \* per host, the list resolve_addresses returned
    pc,                 \* where ping_pretty stands; "caller" when another caller drives
    total_sent,         \* the local total_sent of ping_pretty
    end,                \* the local end: timer() + duration, or None
    pause,              \* the argument of the last asyncio.sleep of the loop
    wake_at,            \* when that sleep is over; None when the loop is not asleep
    probes,             \* the PingResults made by ping.ping, in the order of the calls
    in_flight,          \* the probes that have an entry in ping.pending_pings
    ready_queue,        \* the loop's FIFO of handles: done-callbacks and task wake-ups
    gather,             \* the futures asyncio.gather of wait_pending still waits for
    statistics,         \* the PingStatistics object
    read,               \* what the last read of statistics.summary gave
    admitted,           \* the probes handed to add_ping by the caller
    evicted,            \* the probes flush_old has removed, in the order of removal
    timer               \* the clock timer() reads, in milliseconds

\* The running sums of PingStatistics as the floats they are
VARIABLES
    elapsed_ints,       \* elapsed_int of the SUCCESS outcomes counted, in microseconds
    sums,               \* _elapsed_n, _elapsed_sum and _elapsed_sum_sqr
    variance            \* elapsed_var as the last summary computed it

\* NDT7Statistics(window) and the calls of update made on it
VARIABLES
    stats_window,       \* NDT7Statistics.window, in microseconds
    groups,             \* NDT7Statistics.groups: group -> list of measurements
    heap,               \* the AppInfo and TCPInfo objects the measurements refer to
    inserted,           \* per group, the measurements update has appended, in order
    updated,            \* the last call of update: what it was given and returned
    perf_counter,       \* the clock timer() reads for update, in microseconds
    second,             \* the groups of a second aggregator of the same window
    alone               \* the measurement passed to both aggregators, and what each
                        \* aggregator writes into it when it is the only one to get it

ping_vars == <<echo_seq, results, pending_pings, pending_sends, readers, writers,
               closed, timeout_handle, ready, pop_count, now, last>>

ndt_vars == <<role, direction, websocket, tasks, call_soon, transferred_bytes,
              msg, next_measurement, sleeping, measurements_queue, generator,
              measurement, enqueued, yielded, sent, doublings, received, message, produced, elapsed,
              bandwidth, peer_sends>>

pretty_vars == <<args, hostnames, host_addr, pc, total_sent, end, pause, wake_at, probes,
                 in_flight, ready_queue, gather, statistics, read, admitted, evicted,
                 timer>>

groups_vars == <<stats_window, groups, heap, inserted, updated, perf_counter, second,
                 alone>>

sums_vars == <<elapsed_ints, sums, variance>>

\* What a step of the ICMP engine, of the NDT7 session, of ping_pretty and of
\* NDT7Statistics leaves alone
beside_ping == <<ndt_vars, pretty_vars, groups_vars, sums_vars>>
beside_ndt == <<ping_vars, pretty_vars, groups_vars, sums_vars>>
beside_pretty == <<ping_vars, ndt_vars, groups_vars, sums_vars>>
beside_groups == <<ping_vars, ndt_vars, pretty_vars, sums_vars>>
beside_sums == <<ping_vars, ndt_vars, pretty_vars, groups_vars>>

vars == <<ping_vars, ndt_vars, pretty_vars, groups_vars, sums_vars>>

----------------------------------------------------------------------------
(* Bounds of the model *)

MaxProbes == 2       \* number of ping() calls explored
MaxTime == 1         \* the clock stops advancing here
NumPayloads == 1     \* distinct random payloads drawn by ping()
MaxDuration == 1     \* max_duration of the session, in measurement periods
QuietPeer == 1       \* messages a quiet peer sends in a session
BusyPeer == 2        \* messages a busy peer sends in a session
SlowLink == 1        \* binary messages a slow connection accepts in a session
FastLink == 110      \* binary messages a fast connection accepts in a session
MaxAdmitted == 2     \* probes a caller other than ping_pretty hands to add_ping
MaxClock == 4        \* how far timer runs for a caller other than ping_pretty
Timeout == 2         \* the timeout argument, in milliseconds
Window == 1          \* the window argument when one is given, in milliseconds
Duration == 3        \* the duration argument when one is given, in milliseconds
Interval == 2        \* the interval argument when one is given, in milliseconds
MaxUpdates == 4      \* calls of NDT7Statistics.update explored
StatsWindow == 1000000  \* the window of NDT7Statistics when one is given, in microseconds
UpdateEvery == 600000   \* time between two calls of update, in microseconds
MaxSamples == 3      \* SUCCESS outcomes held in the float sums

(* Program constants *)

ICMP_ECHO_REQUEST == 8
ICMP_ECHO_REPLY == 0
ICMP6_ECHO_REQUEST == 128
ICMP6_ECHO_REPLY == 129
SeqModulus == 65536     \* echo_seq is masked with 0xFFFF
MAX_SIZE == 16777216    \* NDT7.MAX_SIZE = 1 << 24
msg_initial == 8192     \* msg = random.randbytes(1 << 13)
measurement_period == 1 \* 0.1 s, the unit of the session clock
TIME_RESOLUTION == 1000 \* 1e-6 s: microseconds in one millisecond of timer
flood_interval == 5     \* 0.005 s
default_interval == 250 \* 0.25 s
default_window == 5000  \* 5 s
rate_threshold == 10000  \* elapsedTimeSeconds > 0.01, in microseconds
mant_dig == 53          \* bits in the mantissa of a Python float

\* Python's None, a value outside the range of every timestamp, timeout and identity
None == 0 - 1
AF_INET == "AF_INET"
AF_INET6 == "AF_INET6"
Families == {AF_INET, AF_INET6}

(* PingResult.Status *)
SCHEDULED == "SCHEDULED"
PENDING == "PENDING"
SUCCESS == "SUCCESS"
UNREACHABLE == "UNREACHABLE"
TIMEOUT == "TIMEOUT"
CANCELED == "CANCELED"
Status == {SCHEDULED, PENDING, SUCCESS, UNREACHABLE, TIMEOUT, CANCELED}
Terminal == {SUCCESS, UNREACHABLE, TIMEOUT, CANCELED}

(* Inputs *)
Addresses == {"192.0.2.1", "::1", "example.com"}
IsIPv4Address(a) == a = "192.0.2.1"
IsIPv6Address(a) == a = "::1"
Timeouts == {None, 0, 1}
Payloads == 1..NumPayloads

(* The payload of a received datagram: 0 stands for bytes no request carries
   (a payload of another length, or of another process). *)
RecvPayloads == 0..NumPayloads
RecvSeqs == 0..(MaxProbes - 1)
\* (type, code) of a received datagram: the two echo replies, an echo request, and
\* an echo reply with a non-zero code
RecvHeaders == {<<ICMP_ECHO_REPLY, 0>>, <<ICMP6_ECHO_REPLY, 0>>,
                <<ICMP_ECHO_REQUEST, 0>>, <<ICMP_ECHO_REPLY, 1>>}

(* What recvfrom can hand to datagram_received, by length class: fewer than 4
   bytes, 4 to 7 bytes, or a full 8-byte header followed by the payload. *)
Datagrams ==
    {[len |-> "lt4"]}
    \cup {[len |-> "lt8", type |-> h[1], code |-> h[2]] : h \in RecvHeaders}
    \cup {[len |-> "full", type |-> h[1], code |-> h[2], id |-> 7, seq |-> s,
           payload |-> p] : h \in RecvHeaders, s \in RecvSeqs, p \in RecvPayloads}

----------------------------------------------------------------------------
(* The insertion-ordered dict pending_pings, as a sequence of entries *)

DictHas(d, k) == \E i \in 1..Len(d) : d[i].key = k

DictGet(d, k) ==
    IF DictHas(d, k) THEN d[CHOOSE i \in 1..Len(d) : d[i].key = k].value ELSE None

\* Faulty variant: an assignment that stores nothing
DictSetNothing(d, k, v) == d

DictSet(d, k, v) ==
    IF DictHas(d, k)
    THEN [i \in 1..Len(d) |-> IF d[i].key = k THEN [key |-> k, value |-> v] ELSE d[i]]
    ELSE Append(d, [key |-> k, value |-> v])

\* Faulty variant: pop that leaves the entry in place
DictPopKeepsEntry(d, k) == d

DictPop(d, k) == SelectSeq(d, LAMBDA e : e.key # k)

DictValues(d) == [i \in 1..Len(d) |-> d[i].value]

----------------------------------------------------------------------------
(* PingResult *)

\* PingResult.key
Key(r) == <<r.seq, r.payload>>

\* Faulty variant: a PingResult born SCHEDULED, as the comments of Status describe it
NewPingResultScheduled(addr, seq, payload, t) ==
    [addr |-> addr, seq |-> seq, payload |-> payload, start |-> t, end |-> None,
     status |-> SCHEDULED, future |-> [state |-> "PENDING", callbacks |-> <<>>]]

\* The dataclass defaults of a new PingResult
NewPingResult(addr, seq, payload, t) ==
    [addr |-> addr, seq |-> seq, payload |-> payload, start |-> t, end |-> None,
     status |-> PENDING, future |-> [state |-> "PENDING", callbacks |-> <<>>]]

\* Future.add_done_callback on a future that is not done
AddDoneCallback(f, cb) == [f EXCEPT !.callbacks = Append(@, cb)]

\* Future.set_result: marks the future done and hands its callbacks to call_soon;
\* on a future that is already done it raises InvalidStateError.
SetResult(f) ==
    IF f.state = "PENDING"
    THEN [future |-> [state |-> "FINISHED", callbacks |-> <<>>], scheduled |-> f.callbacks]
    ELSE [future |-> f, scheduled |-> <<>>]

\* Faulty variant: complete without the test of the status
CompleteUnguarded(st, p, s, t) ==
    LET sr == SetResult(st.results[p].future)
    IN  [results |-> [st.results EXCEPT ![p].status = s, ![p].end = t,
                                        ![p].future = sr.future],
         ready |-> st.ready \o sr.scheduled]

\* Faulty variant: complete that forgets to stamp end
CompleteNoEnd(st, p, s, t) ==
    IF st.results[p].status = PENDING
    THEN LET sr == SetResult(st.results[p].future)
         IN  [results |-> [st.results EXCEPT ![p].status = s, ![p].future = sr.future],
              ready |-> st.ready \o sr.scheduled]
    ELSE st

\* PingResult.complete, on the pair (results, ready)
Complete(st, p, s, t) ==
    IF st.results[p].status = PENDING
    THEN LET sr == SetResult(st.results[p].future)
         IN  [results |-> [st.results EXCEPT ![p].status = s, ![p].end = t,
                                             ![p].future = sr.future],
              ready |-> st.ready \o sr.scheduled]
    ELSE st

RECURSIVE CompleteAll(_, _, _, _)
\* for pending_ping in ...: pending_ping.complete(s)
CompleteAll(st, ps, s, t) ==
    IF ps = <<>> THEN st
    ELSE CompleteAll(Complete(st, Head(ps), s, t), Tail(ps), s, t)

----------------------------------------------------------------------------
(* Ping *)

\* struct.pack("!BBHHH", icmp_type, 0, 0, 0, seq) + payload
Packet(icmp_type, seq, payload) ==
    [type |-> icmp_type, code |-> 0, checksum |-> 0, id |-> 0, seq |-> seq,
     payload |-> payload]

(* The NDT7 session: names, messages and the state handle_websocket starts from *)

client == "client"
server == "server"
Role == {client, server}
download == "download"
upload == "upload"
Direction == {download, upload}

\* The tasks of the list `tasks`, in creation order
consumer == "consumer_handler"
producer == "producer_handler"
deadline == "sleep"
Tasks == {consumer, producer, deadline}

\* An AppInfo record; NoAppInfo stands for the absent key
AppInfo(elapsed_us, num_bytes) == [ElapsedTime |-> elapsed_us, NumBytes |-> num_bytes]
NoAppInfo == AppInfo(None, None)
PeerAppInfo == AppInfo(1, 1)

\* An item of measurements_queue: the pair (measurement_direction, measurement).
\* source and n identify the measurement: which handler enqueued it ("local" for
\* producer_handler, "peer" for consumer_handler) and its rank among that handler's.
Item(tag, source, n, appinfo) ==
    [tag |-> tag, source |-> source, n |-> n, AppInfo |-> appinfo]
\* The item None put by cancel_all
Sentinel == Item("None", "None", 0, NoAppInfo)

\* What the peer can send: a binary message of some length, or a text message that
\* is a JSON object with or without the key AppInfo, a JSON value that is not an
\* object ("array", the text `[]`), or no JSON at all
BinaryLens == {msg_initial}
JsonTexts == {"object_with_AppInfo", "object", "array", "invalid"}
Messages ==
    [type : {"bytes"}, len : BinaryLens, json : {"none"}]
        \cup [type : {"str"}, len : {0}, json : JsonTexts]
NoMessage == [type |-> "none", len |-> 0, json |-> "none"]

\* handle_websocket up to its first `await measurements_queue.get()`: the three tasks
\* are created and hooked, none has run yet.  link is the connection's bandwidth
\* and peer the number of messages the peer is going to send.
handle_websocket(r, d, link, peer) ==
    /\ role = r
    /\ bandwidth = link
    /\ peer_sends = peer
    /\ direction = d
    /\ websocket = "open"
    /\ tasks = [t \in Tasks |-> "pending"]
    /\ call_soon = <<>>
    /\ transferred_bytes = 0
    /\ msg = msg_initial
    /\ next_measurement = 0 - measurement_period
    /\ sleeping = FALSE
    /\ measurements_queue = <<>>
    /\ generator = "get"
    /\ measurement = Sentinel
    /\ enqueued = [source \in {"local", "peer"} |-> 0]
    /\ yielded = [source \in {"local", "peer"} |-> 0]
    /\ sent = [bytes |-> 0, str |-> 0]
    /\ doublings = 0
    /\ received = 0
    /\ message = NoMessage
    /\ produced = "nothing"
    /\ elapsed = 0

(* ping_pretty and PingStatistics: the state they start from *)

\* PingStatistics.__init__(window, num_scheduled)
PingStatistics(w, num_scheduled) ==
    [window |-> w,
     status_count |-> [s \in Status |-> IF s = SCHEDULED THEN num_scheduled ELSE 0],
     results |-> <<>>,
     total_sent |-> 0,
     elapsed_n |-> 0,
     elapsed_sum |-> 0,
     elapsed_sum_sqr |-> 0,
     elapsed_all |-> <<>>,
     changed |-> TRUE,
     cached_summary |-> [unset |-> TRUE]]

\* No read of summary yet
NoRead == [at |-> None]

\* The engine, the loop, the clock and the sums before the first probe
NoProbes ==
    /\ probes = <<>>
    /\ in_flight = {}
    /\ ready_queue = <<>>
    /\ gather = {}
    /\ read = NoRead
    /\ admitted = {}
    /\ evicted = <<>>
    /\ timer = 0
    /\ total_sent = 0
    /\ pause = None
    /\ wake_at = None
    /\ elapsed_ints = <<>>
    /\ sums = [n |-> 0, sum |-> 0, sum_sqr |-> <<>>]
    /\ variance = [read |-> FALSE]

\* ping_pretty(hosts, **a) up to the test of its while loop: the names are resolved,
\* the window defaulted, result_statistics built and end computed.
ping_pretty(hosts, addrs, a) ==
    LET w == IF a.window = None /\ a.count = None /\ a.duration = None
             THEN default_window ELSE a.window
    IN  /\ args = a
        /\ hostnames = hosts
        /\ host_addr = addrs
        /\ pc = "while"
        /\ statistics = PingStatistics(w, 0)
        /\ end = IF a.duration # None THEN 0 + a.duration ELSE None
        /\ NoProbes

\* A PingStatistics(window, num_scheduled) in the hands of another caller, which
\* issues probes with the given timeout and adds each one as it is issued
PingStatisticsCaller(w, num_scheduled, t) ==
    /\ args = [count |-> None, duration |-> None, interval |-> None, window |-> w,
               timeout |-> t, flood |-> FALSE, num_scheduled |-> num_scheduled]
    /\ hostnames = <<"localhost">>
    /\ host_addr = <<<<"127.0.0.1">>>>
    /\ pc = "caller"
    /\ statistics = PingStatistics(w, num_scheduled)
    /\ end = None
    /\ NoProbes

\* An AppInfo or TCPInfo object: NumBytes stands for each counter beside ElapsedTime
\* (NumBytes of AppInfo; BusyTime, BytesAcked, ... of TCPInfo, which lines 66-89 of
\* ndt7_stats.py treat alike)
Info(elapsed_time, num_bytes) ==
    [ElapsedTime |-> elapsed_time, NumBytes |-> num_bytes,
     Delta |-> [unset |-> TRUE], Rate |-> [unset |-> TRUE]]

\* NDT7Statistics.INITIAL_MEASUREMENT: its AppInfo and TCPInfo are the first two
\* objects of the heap
INITIAL_MEASUREMENT == [AppInfo |-> 1, TCPInfo |-> 2, timestamp |-> None]

\* NDT7Statistics.__init__(window): no group yet
NDT7Statistics(w) ==
    /\ stats_window = w
    /\ groups = [g \in {} |-> <<>>]
    /\ heap = <<Info(0, 0), Info(0, 0)>>
    /\ inserted = [g \in {} |-> <<>>]
    /\ updated = [group |-> "", passed |-> INITIAL_MEASUREMENT, returned |-> INITIAL_MEASUREMENT]
    /\ perf_counter = 0
    /\ second = [g \in {} |-> <<>>]
    /\ alone = [shared |-> FALSE, passed |-> INITIAL_MEASUREMENT]

\* Ping.__init__
PingInit ==
    /\ echo_seq = 0
    /\ results = <<>>
    /\ pending_pings = <<>>
    /\ pending_sends = [f \in Families |-> <<>>]
    /\ readers = Families
    /\ writers = {}
    /\ closed = FALSE
    /\ timeout_handle = <<>>
    /\ ready = <<>>
    /\ pop_count = <<>>
    /\ now = 0
    /\ last = "ok"

\* The state the ICMP engine is explored from; the NDT7 session takes no step
Init ==
    /\ PingInit
    /\ handle_websocket(client, download, SlowLink, QuietPeer)
    /\ PingStatisticsCaller(None, 0, Timeout)
    /\ NDT7Statistics(None)

\* The body of Ping.ping once the address family is known: build the packet and the
\* PingResult, insert it in pending_pings, queue the datagram, register the writer
\* for a queue that was empty, hook the done-callbacks and arm the timer.
ping_issue(addr, timeout, payload) ==
    LET family == IF IsIPv4Address(addr) THEN AF_INET ELSE AF_INET6
        icmp_type == IF IsIPv4Address(addr) THEN ICMP_ECHO_REQUEST
                                            ELSE ICMP6_ECHO_REQUEST
        packet == Packet(icmp_type, echo_seq, payload)
        p == Len(results) + 1
        r0 == NewPingResult(addr, echo_seq, payload, now)
        f1 == AddDoneCallback(r0.future, [fn |-> "pop", arg |-> p])
        f2 == IF timeout # None
              THEN AddDoneCallback(f1, [fn |-> "cancel", arg |-> p])
              ELSE f1
    IN  /\ results' = Append(results, [r0 EXCEPT !.future = f2])
        /\ pending_pings' = DictSet(pending_pings, Key(r0), p)
        /\ pending_sends' = [pending_sends EXCEPT ![family] =
                                Append(@, [data |-> packet, address |-> addr,
                                           result |-> p])]
        /\ writers' = IF Len(pending_sends'[family]) = 1
                      THEN writers \cup {family} ELSE writers
        /\ timeout_handle' = Append(timeout_handle,
                IF timeout # None
                THEN [state |-> "armed", when |-> now + timeout]
                ELSE [state |-> "none", when |-> None])
        /\ pop_count' = Append(pop_count, 0)
        /\ last' = "ok"
        /\ UNCHANGED <<readers, closed, ready, now>>

\* Ping.ping leaving by `raise ValueError`: only echo_seq has been assigned
ping_raise(error) ==
    /\ last' = error
    /\ UNCHANGED <<results, pending_pings, pending_sends, readers, writers, closed,
                   timeout_handle, ready, pop_count, now>>

\* Faulty variant: ping whose address test has no final `else: raise`
ping_no_address_check(addr, timeout, payload, reserved) ==
    /\ ~closed
    /\ echo_seq # MaxProbes
    /\ timeout # None => now + timeout <= MaxTime
    /\ echo_seq' = (echo_seq + 1) % SeqModulus
    /\ IF reserved
       THEN ping_raise("ping_reserved")
       ELSE ping_issue(addr, timeout, payload)
    /\ UNCHANGED beside_ping

\* Faulty variant: a counter that is not masked with 0xFFFF
ping_no_mask(addr, timeout, payload, reserved) ==
    /\ ~closed
    /\ echo_seq # MaxProbes
    /\ timeout # None => now + timeout <= MaxTime
    /\ echo_seq' = echo_seq + 1
    /\ IF ~IsIPv4Address(addr) /\ ~IsIPv6Address(addr)
       THEN ping_raise("ping_unsupported")
       ELSE IF reserved
       THEN ping_raise("ping_reserved")
       ELSE ping_issue(addr, timeout, payload)
    /\ UNCHANGED beside_ping

\* Ping.ping(addr, timeout, **kwargs); reserved: a keyword names a field of PingResult.
\* The engine is an async context manager: ping() is called inside the `async with`
\* body only, so never after __aexit__.
ping(addr, timeout, payload, reserved) ==
    /\ ~closed
    /\ echo_seq # MaxProbes
    /\ timeout # None => now + timeout <= MaxTime
    /\ echo_seq' = (echo_seq + 1) % SeqModulus
    /\ IF ~IsIPv4Address(addr) /\ ~IsIPv6Address(addr)
       THEN ping_raise("ping_unsupported")
       ELSE IF reserved
       THEN ping_raise("ping_reserved")
       ELSE ping_issue(addr, timeout, payload)
    /\ UNCHANGED beside_ping

\* Faulty variant: a lookup that does not test the ICMP code
LookupIgnoresCode(d) ==
    IF d.len = "lt4" THEN [kind |-> "error"]
    ELSE IF d.type \in {ICMP_ECHO_REPLY, ICMP6_ECHO_REPLY}
    THEN IF d.len = "lt8" THEN [kind |-> "error"]
         ELSE LET key == <<d.seq, d.payload>>
                  pending_ping == DictGet(pending_pings, key)
              IN  IF pending_ping # None /\ results[pending_ping].payload = d.payload
                  THEN [kind |-> "hit", result |-> pending_ping]
                  ELSE [kind |-> "drop"]
    ELSE [kind |-> "drop"]

\* Faulty variant: a lookup that does not test the ICMP type
LookupAnyType(d) ==
    IF d.len = "lt4" THEN [kind |-> "error"]
    ELSE IF d.code = 0
    THEN IF d.len = "lt8" THEN [kind |-> "error"]
         ELSE LET key == <<d.seq, d.payload>>
                  pending_ping == DictGet(pending_pings, key)
              IN  IF pending_ping # None /\ results[pending_ping].payload = d.payload
                  THEN [kind |-> "hit", result |-> pending_ping]
                  ELSE [kind |-> "drop"]
    ELSE [kind |-> "drop"]

\* Outcome of Ping.datagram_received on a datagram: "error" when struct.unpack
\* raises on a short buffer (the loop logs it and goes on), "drop" when nothing is
\* completed, otherwise the PingResult that complete(SUCCESS) is called on.
Lookup(d) ==
    IF d.len = "lt4" THEN [kind |-> "error"]
    ELSE IF d.type \in {ICMP_ECHO_REPLY, ICMP6_ECHO_REPLY} /\ d.code = 0
    THEN IF d.len = "lt8" THEN [kind |-> "error"]
         ELSE LET key == <<d.seq, d.payload>>
                  pending_ping == DictGet(pending_pings, key)
              IN  IF pending_ping # None /\ results[pending_ping].payload = d.payload
                  THEN [kind |-> "hit", result |-> pending_ping]
                  ELSE [kind |-> "drop"]
    ELSE [kind |-> "drop"]

\* datagram_received acts on a datagram through its lookup alone, so that two
\* datagrams of the same outcome are one step of the engine: of the datagrams
\* recvfrom can return, one of every outcome
Received ==
    {CHOOSE d \in Datagrams : Lookup(d) = hit : hit \in {Lookup(d) : d \in Datagrams}}

\* Ping.recv_ready(sock) followed by Ping.datagram_received(data, address)
recv_ready(family, d) ==
    /\ family \in readers
    /\ LET hit == Lookup(d)
           st == IF hit.kind = "hit"
                 THEN Complete([results |-> results, ready |-> ready], hit.result,
                               SUCCESS, now)
                 ELSE [results |-> results, ready |-> ready]
       IN  /\ results' = st.results
           /\ ready' = st.ready
           /\ last' = IF hit.kind = "error" THEN "recv_error"
                      ELSE IF hit.kind = "drop" THEN "recv_drop" ELSE "ok"
    /\ UNCHANGED <<echo_seq, pending_pings, pending_sends, readers, writers, closed,
                   timeout_handle, pop_count, now>>
    /\ UNCHANGED beside_ping

\* Faulty variant: a send_ready that unregisters the writer whenever sendto raises
send_ready_unregisters(family, ok) ==
    /\ family \in writers
    /\ LET queue == pending_sends[family]
           queue1 == IF Len(queue) > 0 THEN Tail(queue) ELSE queue
           st == IF Len(queue) > 0 /\ ~ok
                 THEN Complete([results |-> results, ready |-> ready],
                               Head(queue).result, UNREACHABLE, now)
                 ELSE [results |-> results, ready |-> ready]
       IN  /\ pending_sends' = [pending_sends EXCEPT ![family] = queue1]
           /\ results' = st.results
           /\ ready' = st.ready
           /\ writers' = IF Len(queue1) = 0 \/ ~ok THEN writers \ {family} ELSE writers
           /\ last' = "ok"
    /\ UNCHANGED <<echo_seq, pending_pings, readers, closed, timeout_handle,
                   pop_count, now>>
    /\ UNCHANGED beside_ping

\* Faulty variant: a send_ready that never removes the writer
send_ready_keeps_writer(family, ok) ==
    /\ family \in writers
    /\ LET queue == pending_sends[family]
           queue1 == IF Len(queue) > 0 THEN Tail(queue) ELSE queue
           st == IF Len(queue) > 0 /\ ~ok
                 THEN Complete([results |-> results, ready |-> ready],
                               Head(queue).result, UNREACHABLE, now)
                 ELSE [results |-> results, ready |-> ready]
       IN  /\ pending_sends' = [pending_sends EXCEPT ![family] = queue1]
           /\ results' = st.results
           /\ ready' = st.ready
           /\ writers' = writers
           /\ last' = "ok"
    /\ UNCHANGED <<echo_seq, pending_pings, readers, closed, timeout_handle,
                   pop_count, now>>
    /\ UNCHANGED beside_ping

\* Faulty variant: queue.pop() in place of queue.pop(0)
send_ready_pops_last(family, ok) ==
    /\ family \in writers
    /\ LET queue == pending_sends[family]
           queue1 == IF Len(queue) > 0 THEN SubSeq(queue, 1, Len(queue) - 1) ELSE queue
           st == IF Len(queue) > 0 /\ ~ok
                 THEN Complete([results |-> results, ready |-> ready],
                               queue[Len(queue)].result, UNREACHABLE, now)
                 ELSE [results |-> results, ready |-> ready]
       IN  /\ pending_sends' = [pending_sends EXCEPT ![family] = queue1]
           /\ results' = st.results
           /\ ready' = st.ready
           /\ writers' = IF Len(queue1) = 0 THEN writers \ {family} ELSE writers
           /\ last' = "ok"
    /\ UNCHANGED <<echo_seq, pending_pings, readers, closed, timeout_handle,
                   pop_count, now>>
    /\ UNCHANGED beside_ping

\* Ping.send_ready(family); ok: sendto returned without raising
send_ready(family, ok) ==
    /\ family \in writers
    /\ LET queue == pending_sends[family]
           queue1 == IF Len(queue) > 0 THEN Tail(queue) ELSE queue
           st == IF Len(queue) > 0 /\ ~ok
                 THEN Complete([results |-> results, ready |-> ready],
                               Head(queue).result, UNREACHABLE, now)
                 ELSE [results |-> results, ready |-> ready]
       IN  /\ pending_sends' = [pending_sends EXCEPT ![family] = queue1]
           /\ results' = st.results
           /\ ready' = st.ready
           /\ writers' = IF Len(queue1) = 0 THEN writers \ {family} ELSE writers
           /\ last' = "ok"
    /\ UNCHANGED <<echo_seq, pending_pings, readers, closed, timeout_handle,
                   pop_count, now>>
    /\ UNCHANGED beside_ping

\* on_timeout of probe p, run by the loop when the TimerHandle of call_later is due
\* and has not been cancelled
on_timeout(p) ==
    /\ p \in 1..Len(results)
    /\ timeout_handle[p].state = "armed"
    /\ now >= timeout_handle[p].when
    /\ timeout_handle' = [timeout_handle EXCEPT ![p].state = "fired"]
    /\ LET st == Complete([results |-> results, ready |-> ready], p, TIMEOUT, now)
       IN  /\ results' = st.results
           /\ ready' = st.ready
    /\ last' = "ok"
    /\ UNCHANGED <<echo_seq, pending_pings, pending_sends, readers, writers, closed,
                   pop_count, now>>
    /\ UNCHANGED beside_ping

\* The loop runs the next done-callback of a completed future:
\*   lambda _: self.pending_pings.pop(pending_ping.key)   (KeyError when absent)
\*   lambda _: timeout_handle.cancel()
run_callback ==
    /\ ready # <<>>
    /\ LET cb == Head(ready)
           p == cb.arg
       IN  IF cb.fn = "pop"
           THEN /\ pending_pings' = DictPop(pending_pings, Key(results[p]))
                /\ pop_count' = IF DictHas(pending_pings, Key(results[p]))
                                THEN [pop_count EXCEPT ![p] = @ + 1] ELSE pop_count
                /\ last' = IF DictHas(pending_pings, Key(results[p]))
                           THEN "ok" ELSE "pop_keyerror"
                /\ UNCHANGED timeout_handle
           ELSE /\ timeout_handle' =
                     IF timeout_handle[p].state = "armed"
                     THEN [timeout_handle EXCEPT ![p].state = "cancelled"]
                     ELSE timeout_handle
                /\ last' = "ok"
                /\ UNCHANGED <<pending_pings, pop_count>>
    /\ ready' = Tail(ready)
    /\ UNCHANGED <<echo_seq, results, pending_sends, readers, writers, closed, now>>
    /\ UNCHANGED beside_ping

\* Faulty variant: an __aexit__ that closes the sockets and completes nothing
aexit_no_cancel ==
    /\ ~closed
    /\ readers' = {}
    /\ writers' = {}
    /\ closed' = TRUE
    /\ last' = "ok"
    /\ UNCHANGED <<echo_seq, results, ready, pending_pings, pending_sends,
                   timeout_handle, pop_count, now>>
    /\ UNCHANGED beside_ping

\* Ping.__aexit__, run once when the `async with` body is left
aexit ==
    /\ ~closed
    /\ readers' = {}
    /\ writers' = {}
    /\ closed' = TRUE
    /\ LET st == CompleteAll([results |-> results, ready |-> ready],
                             DictValues(pending_pings), CANCELED, now)
       IN  /\ results' = st.results
           /\ ready' = st.ready
    /\ last' = "ok"
    /\ UNCHANGED <<echo_seq, pending_pings, pending_sends, timeout_handle,
                   pop_count, now>>
    /\ UNCHANGED beside_ping

\* The monotonic clock advances
tick ==
    /\ now < MaxTime
    /\ now' = now + 1
    /\ last' = "ok"
    /\ UNCHANGED <<echo_seq, results, pending_pings, pending_sends, readers, writers,
                   closed, timeout_handle, ready, pop_count>>
    /\ UNCHANGED beside_ping

Next ==
    \/ \E addr \in Addresses, timeout \in Timeouts, payload \in Payloads,
          reserved \in BOOLEAN : ping(addr, timeout, payload, reserved)
    \/ \E family \in Families, d \in Received : recv_ready(family, d)
    \/ \E family \in Families, ok \in BOOLEAN : send_ready(family, ok)
    \/ \E p \in 1..MaxProbes : on_timeout(p)
    \/ run_callback
    \/ aexit
    \/ tick

Spec == Init /\ [][Next]_vars

\* The engine after SeqModulus - 1 calls of ping, when every probe of those calls has
\* ended, has left the pending map and has been forgotten by its caller
AgedPing ==
    /\ echo_seq = SeqModulus - 1
    /\ results = <<>>
    /\ pending_pings = <<>>
    /\ pending_sends = [f \in Families |-> <<>>]
    /\ readers = Families
    /\ writers = {}
    /\ closed = FALSE
    /\ timeout_handle = <<>>
    /\ ready = <<>>
    /\ pop_count = <<>>
    /\ now = 0
    /\ last = "ok"

WrapInit ==
    /\ AgedPing
    /\ handle_websocket(client, download, SlowLink, QuietPeer)
    /\ PingStatisticsCaller(None, 0, Timeout)
    /\ NDT7Statistics(None)

\* The calls that follow, of probes without timeout that no peer answers
WrapNext ==
    \/ \E addr \in Addresses, payload \in Payloads, reserved \in BOOLEAN :
           ping(addr, None, payload, reserved)
    \/ \E family \in Families, ok \in BOOLEAN : send_ready(family, ok)
    \/ run_callback
    \/ aexit

WrapSpec == WrapInit /\ [][WrapNext]_vars

\* The steps that change a probe, the pending map, a queue or a timer: every step
\* of the engine but the receipt of a datagram that completes nothing, which leaves
\* all of them as they are
FairNext ==
    \/ \E addr \in Addresses, timeout \in Timeouts, payload \in Payloads,
          reserved \in BOOLEAN : ping(addr, timeout, payload, reserved)
    \/ \E family \in Families, d \in Received :
          Lookup(d).kind = "hit" /\ recv_ready(family, d)
    \/ \E family \in Families, ok \in BOOLEAN : send_ready(family, ok)
    \/ \E p \in 1..MaxProbes : on_timeout(p)
    \/ run_callback
    \/ aexit
    \/ tick

\* The event loop keeps running: due timers fire, scheduled callbacks run, time passes
FairSpec == Init /\ [][FairNext]_vars
                 /\ WF_vars(run_callback) /\ WF_vars(tick)
                 /\ \A p \in 1..MaxProbes : WF_vars(on_timeout(p))

----------------------------------------------------------------------------
(* Vocabulary of the properties *)

Probes == 1..Len(results)
Queued(p) == \E f \in Families : \E i \in 1..Len(pending_sends[f]) :
                 pending_sends[f][i].result = p
InMap(p) == DictGet(pending_pings, Key(results[p])) = p
IsTerminal(p) == results[p].status \in Terminal

\* C1: complete acts only on a PENDING probe. A step that takes a probe out of
\* PENDING puts it in one of the four terminal statuses, sets end to the clock and
\* finishes its future; a step on a probe that is not PENDING, whoever calls
\* complete (reply, send failure, timer, shutdown), leaves its status, end and
\* future as they are.
C1_CompleteOnce ==
    /\ [](\A p \in Probes : results[p].status \in {PENDING} \cup Terminal)
    /\ [][\A p \in Probes :
            /\ results[p].status # PENDING => results'[p] = results[p]
            /\ results[p].status = PENDING /\ results'[p].status # PENDING =>
                 /\ results'[p].status \in Terminal
                 /\ results'[p].end = now
                 /\ results[p].future.state = "PENDING"
                 /\ results'[p].future.state = "FINISHED"]_vars

\* C1 witness: a probe that ended otherwise had its timer fire afterwards, a second
\* complete call that changed nothing.
C1_Witness ==
    \E p \in Probes : /\ results[p].status \in {SUCCESS, UNREACHABLE, CANCELED}
                      /\ timeout_handle[p].state = "fired"

\* C2: once the engine is closed no probe is PENDING; the closing step turns exactly
\* the probes that were PENDING into CANCELED and leaves the others as they were.
C2_NoPendingAfterClose ==
    /\ [](closed => \A p \in Probes : results[p].status # PENDING)
    /\ [][~closed /\ closed' =>
            \A p \in Probes :
               IF results[p].status = PENDING
               THEN results'[p].status = CANCELED /\ results'[p].end = now
               ELSE results'[p] = results[p]]_vars

\* C2 witness: the engine is closed, one probe was cancelled with its datagram still
\* in a send queue, another had ended before the close and kept its status.
C2_Witness ==
    /\ closed
    /\ \E p \in Probes : results[p].status = CANCELED /\ Queued(p)
    /\ \E q \in Probes : results[q].status \in {SUCCESS, UNREACHABLE, TIMEOUT}

\* C7: end is set exactly when the status is neither SCHEDULED nor PENDING.
C7_EndIffTerminal ==
    \A p \in Probes :
        (results[p].end # None) <=> (results[p].status \notin {SCHEDULED, PENDING})

\* C7 witness: a terminal probe with its end set beside a pending one without.
C7_Witness ==
    /\ \E p \in Probes : IsTerminal(p) /\ results[p].end # None
    /\ \E q \in Probes : results[q].status = PENDING /\ results[q].end = None

\* C3: under a fair event loop, every probe issued with a timeout eventually leaves
\* PENDING, reply or no reply; and the timer of a probe issued with timeout 0 is due
\* from the moment it is armed.
C3_TimeoutTerminates ==
    /\ \A p \in 1..MaxProbes :
          (p \in Probes /\ timeout_handle[p].state # "none") ~> (p \in Probes /\ IsTerminal(p))
    /\ [](\A p \in Probes :
             timeout_handle[p].state = "armed" /\ timeout_handle[p].when = results[p].start
                 => ENABLED on_timeout(p))

\* C3 witness: a probe that nothing answered ended by its timer.
C3_Witness ==
    \E p \in Probes : /\ results[p].status = TIMEOUT
                      /\ timeout_handle[p].state = "fired"
                      /\ results[p].end >= timeout_handle[p].when

\* The echo replies a probe's key answers to
IsReplyTo(d, p) ==
    /\ d.len = "full"
    /\ d.type \in {0, 129}
    /\ d.code = 0
    /\ d.seq = results[p].seq
    /\ d.payload = results[p].payload

\* C4: the lookup of a received datagram finds a probe exactly when the datagram is
\* an echo reply (type 0 or 129, code 0) carrying the sequence number and payload of
\* a probe of the pending map, and then finds that probe. A probe becomes SUCCESS
\* only in a step that receives such a reply for it, end is then the clock and no
\* other probe changes; receiving such a reply while the probe is PENDING and in the
\* pending map always makes it SUCCESS.
C4_SuccessOnlyByReply ==
    /\ [](\A d \in Datagrams :
             Lookup(d).kind = "hit" =>
                Lookup(d).result \in Probes /\ IsReplyTo(d, Lookup(d).result))
    /\ [](\A p \in Probes, d \in Datagrams :
             IsReplyTo(d, p) /\ InMap(p) => Lookup(d) = [kind |-> "hit", result |-> p])
    /\ [][/\ \A p \in Probes :
               results[p].status # SUCCESS /\ results'[p].status = SUCCESS =>
                  /\ results[p].status = PENDING
                  /\ results'[p].end = now
                  /\ \A q \in Probes \ {p} : results'[q] = results[q]
                  /\ \E f \in Families, d \in Datagrams :
                        IsReplyTo(d, p) /\ recv_ready(f, d)
          /\ \A p \in Probes, f \in Families, t \in {ICMP_ECHO_REPLY, ICMP6_ECHO_REPLY} :
               LET d == [len |-> "full", type |-> t, code |-> 0, id |-> 7,
                         seq |-> results[p].seq, payload |-> results[p].payload]
               IN  (results[p].status = PENDING /\ InMap(p) /\ recv_ready(f, d))
                      => results'[p].status = SUCCESS /\ results'[p].end = now]_vars

\* C4 witness: a probe answered by its reply.
C4_Witness ==
    \E p \in Probes : /\ results[p].status = SUCCESS
                      /\ results[p].end # None
                      /\ results[p].future.state = "FINISHED"

\* C5: under a fair event loop every probe that has ended has, eventually, no armed
\* timer and no entry in the pending map; the entry is removed at most once, and only
\* after the probe ended; a cancelled timer stays cancelled and changes no probe.
C5_TerminalCleansUp ==
    /\ \A p \in 1..MaxProbes :
          (p \in Probes /\ IsTerminal(p))
             ~> (p \in Probes /\ ~DictHas(pending_pings, Key(results[p]))
                              /\ timeout_handle[p].state # "armed"
                              /\ pop_count[p] = 1)
    /\ [](\A p \in Probes : /\ pop_count[p] <= 1
                            /\ pop_count[p] = 1 => IsTerminal(p)
                            /\ results[p].status = PENDING => InMap(p)
                            /\ timeout_handle[p].state = "cancelled" =>
                                  IsTerminal(p) /\ ~ENABLED on_timeout(p))
    /\ [][\A p \in Probes :
             /\ pop_count[p] = 1 => ~DictHas(pending_pings', Key(results[p]))
             /\ timeout_handle[p].state = "cancelled" =>
                   timeout_handle'[p].state = "cancelled"]_vars

\* C5 witness: a probe that ended before its timer was due: the entry is gone,
\* removed once, and the timer is cancelled.
C5_Witness ==
    \E p \in Probes : /\ results[p].status \in {SUCCESS, UNREACHABLE, CANCELED}
                      /\ timeout_handle[p].state = "cancelled"
                      /\ ~DictHas(pending_pings, Key(results[p]))
                      /\ pop_count[p] = 1

\* C6 (as claimed): a probe whose datagram waits in a send queue is SCHEDULED, and a
\* PENDING probe has had its datagram handed to sendto.
C6_ScheduledWhileQueued ==
    \A p \in Probes : /\ Queued(p) => results[p].status = SCHEDULED
                      /\ results[p].status = PENDING => ~Queued(p)

\* C8: no probe is ever created for an address that is neither IPv4 nor IPv6: a
\* ping() call that creates no probe raised, and the step that raises for the address
\* leaves the probes, the pending map, both send queues, the reader and writer
\* registrations, the timers and the scheduled callbacks as they were.
C8_UnsupportedAddress ==
    /\ [](\A p \in Probes :
             IsIPv4Address(results[p].addr) \/ IsIPv6Address(results[p].addr))
    /\ [][/\ echo_seq' # echo_seq /\ Len(results') = Len(results)
                => last' \in {"ping_unsupported", "ping_reserved"}
          /\ last' = "ping_unsupported" =>
                UNCHANGED <<results, pending_pings, pending_sends, readers, writers,
                            timeout_handle, ready, pop_count>>]_vars

\* C8 witness: the call was refused while an earlier probe was in flight.
C8_Witness ==
    /\ last = "ping_unsupported"
    /\ \E p \in Probes : results[p].status = PENDING /\ Queued(p)

\* C9: a send_ready step whose sendto raises makes the dequeued probe UNREACHABLE if
\* it was PENDING and changes no other probe, no timer and no entry of the pending
\* map; the rest of that queue keeps its order, the other family's queue is
\* untouched, and the writer stays registered while entries remain.
C9_SendFailureIsLocal ==
    [][\A f \in Families :
          send_ready(f, FALSE) =>
             LET queue == pending_sends[f]
                 h == Head(queue).result
             IN  /\ queue # <<>>
                 /\ results'[h].status = IF results[h].status = PENDING
                                         THEN UNREACHABLE ELSE results[h].status
                 /\ \A q \in Probes \ {h} : results'[q] = results[q]
                 /\ timeout_handle' = timeout_handle
                 /\ pending_pings' = pending_pings
                 /\ pending_sends'[f] = Tail(queue)
                 /\ \A g \in Families \ {f} : pending_sends'[g] = pending_sends[g]
                 /\ (Tail(queue) # <<>>) <=> (f \in writers')
                 /\ writers' \ {f} = writers \ {f}]_vars

\* C9 witness: a probe is UNREACHABLE while the probe queued behind it is still
\* PENDING, still queued, and the writer of its family is still registered.
C9_Witness ==
    \E p, q \in Probes, f \in Families :
        /\ p # q
        /\ results[p].status = UNREACHABLE
        /\ results[q].status = PENDING
        /\ pending_sends[f] # <<>> /\ Head(pending_sends[f]).result = q
        /\ results[p].addr = results[q].addr
        /\ f \in writers
        /\ InMap(q)

\* The datagrams the claim calls unexpected: not an echo reply, malformed, or with a
\* (sequence, payload) that is no key of the pending map
Unmatched(d) ==
    \/ d.len # "full"
    \/ d.type \notin {0, 129}
    \/ d.code # 0
    \/ ~DictHas(pending_pings, <<d.seq, d.payload>>)

\* C10: an unexpected datagram completes nothing, and a recv_ready step that
\* discards its datagram (dropped, or rejected by the parser) changes no probe, no
\* entry of the pending map, no queue, no timer, no registration: the readers stay
\* registered for the datagrams that follow.
C10_UnexpectedDatagramDropped ==
    /\ [](\A d \in Datagrams : Unmatched(d) => Lookup(d).kind # "hit")
    /\ [](last \in {"recv_drop", "recv_error"} => readers = Families)
    /\ [][last' \in {"recv_drop", "recv_error"} =>
             UNCHANGED <<echo_seq, results, pending_pings, pending_sends, readers,
                         writers, closed, timeout_handle, ready, pop_count, now>>]_vars

\* C10 witness: a datagram was just dropped while a probe was waiting for its reply.
C10_Witness ==
    /\ last = "recv_drop"
    /\ \E p \in Probes : results[p].status = PENDING /\ InMap(p) /\ ~Queued(p)

InCallOrder(f) ==
    LET queue == pending_sends[f]
    IN  \A i \in 1..Len(queue) :
            /\ queue[i].result \in Probes
            /\ queue[i].address = results[queue[i].result].addr
            /\ IsIPv4Address(queue[i].address) <=> f = AF_INET
            /\ queue[i].data.seq = results[queue[i].result].seq
            /\ queue[i].data.payload = results[queue[i].result].payload
            /\ \A j \in 1..Len(queue) : i < j => queue[i].result < queue[j].result

\* C35: within one family, datagrams are handed to sendto in the order of the
\* ping() calls that enqueued them, one datagram per send_ready; no queued datagram
\* is skipped, reordered or sent twice, and the queues of the two families do not
\* affect each other.
C35_SendInCallOrder ==
    /\ [](\A f \in Families : InCallOrder(f))
    /\ [][/\ \A f \in Families :
               \/ pending_sends'[f] = pending_sends[f]
               \/ /\ f \in writers
                  /\ pending_sends[f] # <<>>
                  /\ pending_sends'[f] = Tail(pending_sends[f])
                  /\ \A g \in Families \ {f} : pending_sends'[g] = pending_sends[g]
               \/ /\ Len(results') = Len(results) + 1
                  /\ Len(pending_sends'[f]) = Len(pending_sends[f]) + 1
                  /\ SubSeq(pending_sends'[f], 1, Len(pending_sends[f])) = pending_sends[f]
                  /\ pending_sends'[f][Len(pending_sends'[f])].result = Len(results')
                  /\ \A g \in Families \ {f} : pending_sends'[g] = pending_sends[g]
          /\ \A p \in Probes : ~Queued(p) => ~Queued(p)'
          /\ Len(results') > Len(results) =>
                 \E f \in Families : \E i \in 1..Len(pending_sends'[f]) :
                     pending_sends'[f][i].result = Len(results')]_vars

\* C35 witness: of two probes to one address the datagram of the first has been
\* sent and that of the second is next in the queue.
C35_Witness ==
    \E f \in Families :
        /\ Len(results) = 2
        /\ results[1].addr = results[2].addr
        /\ ~Queued(1)
        /\ pending_sends[f] # <<>> /\ Head(pending_sends[f]).result = 2
        /\ f \in writers

\* No two probes that have an entry to their name share a key
NoCollision ==
    \A p, q \in Probes :
        p # q /\ ~IsTerminal(p) /\ ~IsTerminal(q) => Key(results[p]) # Key(results[q])

\* C38: as long as no two in-flight probes share a key, every PENDING probe has an
\* entry in the pending map under its key that refers to that probe, and an entry
\* leaves the map only after its probe has become terminal.
C38_PendingProbeInMap ==
    /\ [](NoCollision => \A p \in Probes : results[p].status = PENDING => InMap(p))
    /\ [][\A p \in Probes :
             InMap(p) /\ ~InMap(p)' => IsTerminal(p) /\ results'[p] = results[p]]_vars

\* C38 witness: a probe waits in the map while the entry of a probe that ended has
\* been removed.
C38_Witness ==
    /\ ~closed
    /\ \E p, q \in Probes :
          /\ results[p].status = PENDING /\ InMap(p)
          /\ IsTerminal(q) /\ ~DictHas(pending_pings, Key(results[q]))

\* C36 (as claimed): echo_seq is a counter modulo 2^16 that a ping() call which
\* makes a probe reads into the probe and advances by one, so that it stays within
\* 0..65535 and consecutive probes carry consecutive sequence numbers modulo 2^16.
C36_ConsecutiveProbes ==
    /\ echo_seq \in 0..(SeqModulus - 1)
    /\ \A p \in Probes :
           p + 1 \in Probes => results[p + 1].seq = (results[p].seq + 1) % SeqModulus

\* C36 as the code has it: every ping() call, one that raises ValueError included,
\* advances the counter by one modulo 2^16, and a probe carries the value the
\* counter had when its call began; nothing else changes the counter.
C36_ConsecutiveCalls ==
    /\ [](echo_seq \in 0..(SeqModulus - 1))
    /\ [](\A p \in Probes : results[p].seq \in 0..(SeqModulus - 1))
    /\ [][/\ echo_seq' \in {echo_seq, (echo_seq + 1) % SeqModulus}
          /\ Len(results') # Len(results) =>
                 /\ Len(results') = Len(results) + 1
                 /\ results'[Len(results')].seq = echo_seq
                 /\ echo_seq' = (echo_seq + 1) % SeqModulus
          /\ last' \in {"ping_unsupported", "ping_reserved"} =>
                 echo_seq' = (echo_seq + 1) % SeqModulus
          /\ echo_seq' # echo_seq =>
                 Len(results') # Len(results)
                    \/ last' \in {"ping_unsupported", "ping_reserved"}]_vars

\* C36 witness: the probe of sequence number 65535 is followed by the probe of 0, and
\* the call after that raised.
C36_Witness ==
    /\ Len(results) = 2
    /\ results[1].seq = SeqModulus - 1
    /\ results[2].seq = 0
    /\ echo_seq = 2
    /\ last = "ping_reserved"

----------------------------------------------------------------------------
(* The NDT7 session, NDT7.handle_websocket *)

Done(t) == tasks[t] \in {"finished", "failed", "cancelled"}

\* The handles of call_soon: throw CancelledError into task t at its next step, or
\* run the done-callback of task t, `lambda task: cancel_all()`
Throw(t) == [fn |-> "throw", task |-> t]
DoneCallback(t) == [fn |-> "done_callback", task |-> t]

\* Faulty variant: a Task.cancel() that the task does not notice
Cancel_unnoticed(st, t) == st

\* Task.cancel(): a task that is not done gets CancelledError thrown into it at its
\* next step; a done task, or one already cancelled, is left alone
Cancel(st, t) ==
    IF st.tasks[t] = "pending"
    THEN [tasks |-> [st.tasks EXCEPT ![t] = "cancelling"],
          call_soon |-> Append(st.call_soon, Throw(t))]
    ELSE st

\* Faulty variant: a cancel_all that cancels the tasks and puts no None
cancel_all_no_put(queue, ts, fifo) ==
    LET st == Cancel(Cancel(Cancel([tasks |-> ts, call_soon |-> fifo],
                                   consumer), producer), deadline)
    IN  [measurements_queue |-> queue, tasks |-> st.tasks, call_soon |-> st.call_soon]

\* cancel_all(), on a queue, a task list and the loop's FIFO: put None, then cancel
\* the tasks in the order of the list `tasks`
cancel_all(queue, ts, fifo) ==
    LET st == Cancel(Cancel(Cancel([tasks |-> ts, call_soon |-> fifo],
                                   consumer), producer), deadline)
    IN  [measurements_queue |-> Append(queue, Sentinel),
         tasks |-> st.tasks, call_soon |-> st.call_soon]

\* Faulty variant: a queue that hands out the newest item first
put_nowait_lifo(item) ==
    /\ measurements_queue' = <<item>> \o measurements_queue
    /\ enqueued' = [enqueued EXCEPT ![item.source] = @ + 1]

\* measurements_queue.put_nowait(item), counting the item for its handler
put_nowait(item) ==
    /\ measurements_queue' = Append(measurements_queue, item)
    /\ enqueued' = [enqueued EXCEPT ![item.source] = @ + 1]

\* int(1e6 * (timer() - start)), a measurement period being 0.1 s
elapsed_us == elapsed * 100000

\* Faulty variant: the bulk data sent by the end that should receive it
IsSenderSwapped(r, d) == <<r, d>> \in {<<client, download>>, <<server, upload>>}

\* The (role, direction) pairs of the end that sends the bulk data
IsSender(r, d) == <<r, d>> \in {<<client, upload>>, <<server, download>>}

\* Faulty variant: a consumer_handler that tags like producer_handler
consumer_direction_as_local(r) == IF r = client THEN upload ELSE download

\* measurement_direction of producer_handler and of consumer_handler
producer_direction(r) == IF r = client THEN upload ELSE download
consumer_direction(r) == IF r = client THEN download ELSE upload

\* measure(): the pair put on measurements_queue
measure ==
    Item(producer_direction(role), "local", enqueued["local"] + 1,
         AppInfo(elapsed_us, transferred_bytes))

\* Faulty variant: an adjustment that does not test the size against MAX_SIZE
adjust_no_cap(len, bytes) ==
    IF 16 * len < bytes THEN 2 * len ELSE len

\* `if len(msg) < NDT7.MAX_SIZE and len(msg) < transferred_bytes / 16: msg *= 2`
adjust(len, bytes) ==
    IF len < MAX_SIZE /\ 16 * len < bytes THEN 2 * len ELSE len

\* Faulty variant: a task that was given no done-callback
finish_unhooked(t, how) ==
    /\ tasks' = [tasks EXCEPT ![t] = how]
    /\ UNCHANGED call_soon

\* A task ends by returning or raising: its done-callback is scheduled
finish(t, how) ==
    /\ tasks' = [tasks EXCEPT ![t] = how]
    /\ call_soon' = Append(call_soon, DoneCallback(t))

\* One iteration of `while True` in producer_handler.  websocket.send raises
\* ConnectionClosed once the connection is closed, and waits for the peer to read
\* once the connection carries no more.
producer_handler ==
    /\ tasks[producer] = "pending"
    /\ ~sleeping
    /\ LET time_until_measurement == next_measurement - elapsed
       IN  IF time_until_measurement <= 0
           THEN /\ put_nowait(measure)
                /\ IF websocket = "open"
                   THEN /\ sent' = [sent EXCEPT !.str = @ + 1]
                        /\ next_measurement' = elapsed + measurement_period
                        /\ UNCHANGED <<tasks, call_soon>>
                   ELSE /\ finish(producer, "failed")
                        /\ UNCHANGED <<sent, next_measurement>>
                /\ produced' = "measurement"
                /\ UNCHANGED <<msg, doublings, transferred_bytes, sleeping>>
           ELSE IF IsSender(role, direction)
           THEN /\ msg' = adjust(msg, transferred_bytes)
                /\ doublings' = IF msg' # msg THEN doublings + 1 ELSE doublings
                /\ IF websocket = "open"
                   THEN /\ sent.bytes < bandwidth
                        /\ transferred_bytes' = transferred_bytes + msg'
                        /\ sent' = [sent EXCEPT !.bytes = @ + 1]
                        /\ UNCHANGED <<tasks, call_soon>>
                   ELSE /\ finish(producer, "failed")
                        /\ UNCHANGED <<sent, transferred_bytes>>
                /\ produced' = "bytes"
                /\ UNCHANGED <<measurements_queue, enqueued, next_measurement,
                               sleeping>>
           ELSE /\ sleeping' = TRUE
                /\ produced' = "sleep"
                /\ UNCHANGED <<measurements_queue, enqueued, next_measurement, msg,
                               doublings,
                               transferred_bytes, sent, tasks, call_soon>>
    /\ UNCHANGED <<role, direction, websocket, generator, measurement, yielded,
                   received, message, elapsed, bandwidth, peer_sends>>
    /\ UNCHANGED beside_ndt

\* asyncio.sleep(time_until_measurement) in producer_handler returns
wake ==
    /\ tasks[producer] = "pending"
    /\ sleeping
    /\ elapsed >= next_measurement
    /\ sleeping' = FALSE
    /\ UNCHANGED <<role, direction, websocket, tasks, call_soon,
                   transferred_bytes, msg, next_measurement, measurements_queue,
                   generator, measurement, enqueued, yielded, sent, doublings, received, message, produced,
                   elapsed, bandwidth, peer_sends>>
    /\ UNCHANGED beside_ndt

\* Faulty variant: a consumer_handler that replaces the AppInfo of every measurement
consumer_handler_overwrites(m) ==
    /\ tasks[consumer] = "pending"
    /\ websocket = "open"
    /\ received < peer_sends
    /\ received' = received + 1
    /\ message' = m
    /\ IF m.type = "bytes"
       THEN /\ transferred_bytes' = transferred_bytes + m.len
            /\ UNCHANGED <<measurements_queue, enqueued, tasks, call_soon>>
       ELSE IF m.json \in {"object_with_AppInfo", "object"}
       THEN /\ put_nowait(Item(consumer_direction(role), "peer", enqueued["peer"] + 1,
                               AppInfo(elapsed_us, transferred_bytes)))
            /\ UNCHANGED <<transferred_bytes, tasks, call_soon>>
       ELSE /\ finish(consumer, "failed")
            /\ UNCHANGED <<transferred_bytes, measurements_queue, enqueued>>
    /\ UNCHANGED <<role, direction, websocket, msg, next_measurement, sleeping,
                   generator, measurement, yielded, sent, doublings, produced, elapsed, bandwidth, peer_sends>>
    /\ UNCHANGED beside_ndt

\* One iteration of `async for message in websocket` in consumer_handler, m being the
\* message received.  json.loads raises on text that is no JSON, and
\* measurement["AppInfo"] = ... raises TypeError on a JSON value that is no object.
consumer_handler(m) ==
    /\ tasks[consumer] = "pending"
    /\ websocket = "open"
    /\ received < peer_sends
    /\ received' = received + 1
    /\ message' = m
    /\ IF m.type = "bytes"
       THEN /\ transferred_bytes' = transferred_bytes + m.len
            /\ UNCHANGED <<measurements_queue, enqueued, tasks, call_soon>>
       ELSE IF m.json \in {"object_with_AppInfo", "object"}
       THEN /\ put_nowait(Item(consumer_direction(role), "peer", enqueued["peer"] + 1,
                               IF m.json = "object_with_AppInfo" THEN PeerAppInfo
                               ELSE AppInfo(elapsed_us, transferred_bytes)))
            /\ UNCHANGED <<transferred_bytes, tasks, call_soon>>
       ELSE /\ finish(consumer, "failed")
            /\ UNCHANGED <<transferred_bytes, measurements_queue, enqueued>>
    /\ UNCHANGED <<role, direction, websocket, msg, next_measurement, sleeping,
                   generator, measurement, yielded, sent, doublings, produced, elapsed, bandwidth, peer_sends>>
    /\ UNCHANGED beside_ndt

\* `async for message in websocket` on a closed connection: the loop ends after a
\* normal closure (ConnectionClosedOK) and raises ConnectionClosedError otherwise
consumer_closed ==
    /\ tasks[consumer] = "pending"
    /\ websocket # "open"
    /\ finish(consumer, IF websocket = "closed_ok" THEN "finished" ELSE "failed")
    /\ UNCHANGED <<role, direction, websocket, transferred_bytes, msg,
                   next_measurement, sleeping, measurements_queue, generator, measurement, enqueued, yielded,
                   sent, doublings, received, message, produced, elapsed, bandwidth, peer_sends>>
    /\ UNCHANGED beside_ndt

\* The peer or the network closes the connection, while a handler can still notice
connection_lost(how) ==
    /\ websocket = "open"
    /\ \E t \in {consumer, producer} : tasks[t] = "pending"
    /\ websocket' = how
    /\ UNCHANGED <<role, direction, tasks, call_soon, transferred_bytes, msg,
                   next_measurement, sleeping, measurements_queue, generator, measurement, enqueued, yielded,
                   sent, doublings, received, message, produced, elapsed, bandwidth, peer_sends>>
    /\ UNCHANGED beside_ndt

\* asyncio.sleep(max_duration), the third task, returns once max_duration has elapsed
sleep ==
    /\ tasks[deadline] = "pending"
    /\ elapsed >= MaxDuration
    /\ finish(deadline, "finished")
    /\ UNCHANGED <<role, direction, websocket, transferred_bytes, msg,
                   next_measurement, sleeping, measurements_queue, generator, measurement, enqueued, yielded,
                   sent, doublings, received, message, produced, elapsed, bandwidth, peer_sends>>
    /\ UNCHANGED beside_ndt

\* The loop throws CancelledError into task t, which cancel_all has cancelled; the
\* task ends cancelled and its done-callback is scheduled
cancelled(t) ==
    /\ call_soon # <<>>
    /\ Head(call_soon) = Throw(t)
    /\ tasks' = [tasks EXCEPT ![t] = "cancelled"]
    /\ call_soon' = Append(Tail(call_soon), DoneCallback(t))
    /\ UNCHANGED <<role, direction, websocket, transferred_bytes, msg,
                   next_measurement, sleeping, measurements_queue, generator, measurement, enqueued, yielded,
                   sent, doublings, received, message, produced, elapsed, bandwidth, peer_sends>>
    /\ UNCHANGED beside_ndt

\* The loop runs the done-callback of a task that ended: `lambda task: cancel_all()`
done_callback ==
    /\ call_soon # <<>>
    /\ Head(call_soon).fn = "done_callback"
    /\ LET st == cancel_all(measurements_queue, tasks, Tail(call_soon))
       IN  /\ measurements_queue' = st.measurements_queue
           /\ tasks' = st.tasks
           /\ call_soon' = st.call_soon
    /\ UNCHANGED <<role, direction, websocket, transferred_bytes, msg,
                   next_measurement, sleeping, generator, measurement, enqueued, yielded, sent, doublings,
                   received, message, produced, elapsed, bandwidth, peer_sends>>
    /\ UNCHANGED beside_ndt

\* `measurement = await measurements_queue.get()` returns in the generator: None
\* breaks the loop, the `finally` runs cancel_all and the generator ends; any other
\* item is yielded
get ==
    /\ generator = "get"
    /\ measurements_queue # <<>>
    /\ measurement' = Head(measurements_queue)
    /\ LET st == cancel_all(Tail(measurements_queue), tasks, call_soon)
       IN  IF measurement' = Sentinel
           THEN /\ generator' = "end"
                /\ measurements_queue' = st.measurements_queue
                /\ tasks' = st.tasks
                /\ call_soon' = st.call_soon
                /\ UNCHANGED yielded
           ELSE /\ generator' = "yield"
                /\ yielded' = [yielded EXCEPT ![measurement'.source] = @ + 1]
                /\ measurements_queue' = Tail(measurements_queue)
                /\ UNCHANGED <<tasks, call_soon>>
    /\ UNCHANGED <<enqueued, role, direction, websocket, transferred_bytes, msg,
                   next_measurement, sleeping, sent, doublings, received, message,
                   produced, elapsed, bandwidth, peer_sends>>
    /\ UNCHANGED beside_ndt

\* The caller asks the generator for its next pair (`async for`, __anext__)
anext ==
    /\ generator = "yield"
    /\ generator' = "get"
    /\ UNCHANGED <<role, direction, websocket, tasks, call_soon,
                   transferred_bytes, msg, next_measurement, sleeping,
                   measurements_queue, measurement, enqueued, yielded, sent, doublings, received, message,
                   produced, elapsed, bandwidth, peer_sends>>
    /\ UNCHANGED beside_ndt

\* Faulty variant: a generator whose loop has no `finally: cancel_all()`
close_no_finally(how) ==
    /\ generator = (IF how = "aclose" THEN "yield" ELSE "get")
    /\ generator' = "closed"
    /\ UNCHANGED <<role, direction, websocket, tasks, call_soon, transferred_bytes, msg,
                   next_measurement, sleeping, measurements_queue, measurement,
                   enqueued, yielded, sent, doublings, received, message, produced,
                   elapsed, bandwidth, peer_sends>>
    /\ UNCHANGED beside_ndt

\* The caller stops before the end: it closes the generator suspended at `yield`
\* (how = "aclose", GeneratorExit) or is cancelled while the generator awaits
\* measurements_queue.get() (how = "cancel", CancelledError).  Either way the
\* `finally` runs cancel_all.
close(how) ==
    /\ generator = (IF how = "aclose" THEN "yield" ELSE "get")
    /\ generator' = "closed"
    /\ LET st == cancel_all(measurements_queue, tasks, call_soon)
       IN  /\ measurements_queue' = st.measurements_queue
           /\ tasks' = st.tasks
           /\ call_soon' = st.call_soon
    /\ UNCHANGED <<role, direction, websocket, transferred_bytes, msg,
                   next_measurement, sleeping, measurement, enqueued, yielded, sent, doublings, received,
                   message, produced, elapsed, bandwidth, peer_sends>>
    /\ UNCHANGED beside_ndt

\* The session clock advances by one measurement period
clock ==
    /\ elapsed < MaxDuration
    /\ elapsed' = elapsed + 1
    /\ UNCHANGED <<role, direction, websocket, tasks, call_soon,
                   transferred_bytes, msg, next_measurement, sleeping,
                   measurements_queue, generator, measurement, enqueued, yielded, sent, doublings, received,
                   message, produced, bandwidth, peer_sends>>
    /\ UNCHANGED beside_ndt

\* A session of either role and either direction starts; the ICMP engine is idle
NdtInit ==
    PingInit /\ PingStatisticsCaller(None, 0, Timeout) /\ NDT7Statistics(None)
             /\ \E r \in Role, d \in Direction :
                    handle_websocket(r, d, SlowLink, QuietPeer)

NdtNext ==
    \/ producer_handler
    \/ wake
    \/ \E m \in Messages : consumer_handler(m)
    \/ consumer_closed
    \/ \E how \in {"closed_ok", "closed_error"} : connection_lost(how)
    \/ sleep
    \/ \E t \in Tasks : cancelled(t)
    \/ done_callback
    \/ get
    \/ anext
    \/ \E how \in {"aclose", "cancel"} : close(how)
    \/ clock

NdtSpec == NdtInit /\ [][NdtNext]_vars

\* A session of either role and either direction whose connection stays open and
\* whose caller reads to the end, with a peer that sends more
StreamInit ==
    PingInit /\ PingStatisticsCaller(None, 0, Timeout) /\ NDT7Statistics(None)
             /\ \E r \in Role, d \in Direction :
                    handle_websocket(r, d, SlowLink, BusyPeer)

StreamNext ==
    \/ producer_handler
    \/ wake
    \/ \E m \in Messages : consumer_handler(m)
    \/ sleep
    \/ \E t \in Tasks : cancelled(t)
    \/ done_callback
    \/ get
    \/ anext
    \/ clock

StreamSpec == StreamInit /\ [][StreamNext]_vars

\* The sending end on a fast connection that stays open, up to the deadline: the
\* steps that change msg and transferred_bytes
SenderInit ==
    PingInit /\ PingStatisticsCaller(None, 0, Timeout) /\ NDT7Statistics(None)
             /\ \E r \in Role, d \in Direction :
                    IsSender(r, d) /\ handle_websocket(r, d, FastLink, BusyPeer)

SenderNext ==
    \/ producer_handler
    \/ \E m \in Messages : m.type = "bytes" /\ consumer_handler(m)
    \/ clock

SenderSpec == SenderInit /\ [][SenderNext]_vars

\* The event loop keeps running and the caller keeps reading: time passes, the
\* deadline fires, cancellations are delivered, done-callbacks run, the generator
\* is resumed when an item is queued and the caller asks for the next pair
NdtFairSpec ==
    /\ NdtSpec
    /\ WF_vars(clock) /\ WF_vars(sleep) /\ WF_vars(done_callback)
    /\ WF_vars(get) /\ WF_vars(anext)
    /\ \A t \in Tasks : WF_vars(cancelled(t))

\* create_task schedules the first steps of consumer_handler, producer_handler and
\* sleep, in that order, before the generator first suspends in
\* measurements_queue.get(); the loop runs its handles first in, first out.  The
\* first iteration of producer_handler has therefore run before any timer fires and
\* before any handle scheduled later is run: a done-callback, the throw of a
\* CancelledError, the wakeup of the generator by an item, the caller's stop.
first_turn_over == produced # "nothing"

\* The session with the loop's order of the first steps
LoopNext ==
    \/ producer_handler
    \/ wake
    \/ \E m \in Messages : consumer_handler(m)
    \/ consumer_closed
    \/ \E how \in {"closed_ok", "closed_error"} : connection_lost(how)
    \/ first_turn_over /\ sleep
    \/ \E t \in Tasks : first_turn_over /\ cancelled(t)
    \/ first_turn_over /\ done_callback
    \/ first_turn_over /\ get
    \/ anext
    \/ \E how \in {"aclose", "cancel"} : first_turn_over /\ close(how)
    \/ clock

LoopSpec == NdtInit /\ [][LoopNext]_vars

----------------------------------------------------------------------------
(* Vocabulary of the session's properties *)

\* The done-callback of task t has run
CallbackRan(t) == Done(t) /\ \A i \in 1..Len(call_soon) : call_soon[i] # DoneCallback(t)
\* cancel_all has put a None: one is queued, or the generator took one and ended
SentinelPut ==
    \/ \E i \in 1..Len(measurements_queue) : measurements_queue[i] = Sentinel
    \/ generator = "end"
NumSentinels == Len(SelectSeq(measurements_queue, LAMBDA i : i = Sentinel))
\* The caller has seen the end of the sequence, or has closed it
Over == generator \in {"end", "closed"}
\* This end is the one that sends the bulk data: the client of an upload test, the
\* server of a download test
SenderEnd ==
    \/ role = client /\ direction = upload
    \/ role = server /\ direction = download

----------------------------------------------------------------------------
\* C11: once any of the three tasks has ended, for whatever reason, and the loop has
\* run its done-callback, no task is left uncancelled and a None has been put on the
\* queue; a caller that keeps reading then reaches the end of the sequence, which
\* is clean: None is never yielded, and after the end nothing more is yielded,
\* however many Nones the repeated cancel_all calls have queued.
C11_AnyCompletionEndsSession ==
    /\ [](\A t \in Tasks : CallbackRan(t) =>
             /\ \A u \in Tasks : tasks[u] # "pending"
             /\ SentinelPut)
    /\ [](generator = "yield" => measurement # Sentinel)
    /\ [][generator = "end" => generator' = "end" /\ yielded' = yielded]_vars
    /\ (\E t \in Tasks : Done(t)) ~> Over

\* The receiver failed, the other two tasks ended cancelled, the caller read up to
\* the end, and Nones of later cancel_all calls are still queued
C11_Witness ==
    /\ tasks[consumer] = "failed"
    /\ tasks[producer] = "cancelled"
    /\ tasks[deadline] = "cancelled"
    /\ generator = "end"
    /\ yielded["local"] > 0
    /\ NumSentinels >= 3
    /\ call_soon = <<>>

\* C12: the sequence is finite and the deadline ends it.  Once the deadline task has
\* ended and the loop has run its done-callback, no measurement is enqueued any more;
\* after the end of the sequence nothing more is yielded; and every session gets to
\* that end when the loop keeps running and the caller keeps reading, also when the
\* connection stays open and the peer has sent all it had.
C12_DeadlineEndsSession ==
    /\ [][CallbackRan(deadline) => enqueued' = enqueued]_vars
    /\ [][Over => Over' /\ yielded' = yielded]_vars
    /\ <>Over

\* The deadline expired on an open connection whose peer sent its messages: the other
\* two tasks were cancelled and the caller, still reading, reached the end
C12_Witness ==
    /\ tasks[deadline] = "finished"
    /\ tasks[consumer] = "cancelled"
    /\ tasks[producer] = "cancelled"
    /\ websocket = "open"
    /\ received = peer_sends
    /\ elapsed >= MaxDuration
    /\ generator = "end"

\* C13: when the caller closes the generator, or is cancelled while it waits for the
\* next pair, no task is left uncancelled, and from then on no handler sends a
\* message, receives one, enqueues a measurement or counts a byte.
C13_CallerStopCancelsTasks ==
    /\ [](generator = "closed" => \A t \in Tasks : tasks[t] # "pending")
    /\ [][generator = "closed" =>
            /\ sent' = sent
            /\ received' = received
            /\ enqueued' = enqueued
            /\ transferred_bytes' = transferred_bytes
            /\ msg' = msg]_vars

\* The caller stopped in mid-session, on an open connection before the deadline, and
\* the three tasks, all running until then, ended cancelled
C13_Witness ==
    /\ generator = "closed"
    /\ \A t \in Tasks : tasks[t] = "cancelled"
    /\ websocket = "open"
    /\ elapsed < MaxDuration
    /\ yielded["local"] > 0
    /\ NumSentinels = 4

\* C14: when the sender or the receiver failed with an error that is no cancellation,
\* and the other tasks were cancelled for it, the caller gets that error: the
\* sequence does not come to a normal end.
C14_ErrorReachesCaller ==
    \A t \in {consumer, producer} :
        (/\ tasks[t] = "failed"
         /\ \A u \in Tasks \ {t} : tasks[u] = "cancelled")
            => generator # "end"

\* C15: a text message that is no JSON is dropped and the session goes on: on an
\* open connection the receiver has not failed after taking such a message.
C15_BadFrameDropped ==
    message.json = "invalid" /\ websocket = "open" => tasks[consumer] # "failed"

\* C16: per handler, measurements are yielded in the order they were enqueued: the
\* k-th pair yielded from the sender (from the receiver) is the k-th measurement the
\* sender produced (the receiver took off the connection), and the queue holds the
\* measurements not yet yielded in that order; between the two handlers every
\* interleaving is allowed.
C16_OrderPerSource ==
    /\ [][\A source \in {"local", "peer"} :
            yielded'[source] # yielded[source] =>
                /\ measurement'.source = source
                /\ measurement'.n = yielded[source] + 1
                /\ yielded'[source] = yielded[source] + 1]_vars
    /\ [](\A i, j \in 1..Len(measurements_queue) :
             LET a == measurements_queue[i]
                 b == measurements_queue[j]
             IN  i < j /\ a # Sentinel /\ a.source = b.source => a.n < b.n)

\* Two measurements of each handler were yielded, the second of the peer's before
\* the second of the sender's, which is the one yielded last
C16_Witness ==
    /\ yielded["local"] = 2
    /\ yielded["peer"] = 2
    /\ generator = "yield"
    /\ measurement.source = "local"
    /\ measurement.n = 2

\* C17: every pair (queued, or just yielded) carries the tag of its handler, whatever
\* the direction of the test: the sender's measurements upload for a client and
\* download for a server, the peer's download for a client and upload for a server.
C17_Tagging ==
    LET Tagged(i) ==
            /\ i.source = "local" /\ role = client => i.tag = upload
            /\ i.source = "local" /\ role = server => i.tag = download
            /\ i.source = "peer" /\ role = client => i.tag = download
            /\ i.source = "peer" /\ role = server => i.tag = upload
    IN  /\ \A k \in 1..Len(measurements_queue) : Tagged(measurements_queue[k])
        /\ generator = "yield" => Tagged(measurement)

\* A server in a download test has yielded a measurement of its own and now yields
\* one of the peer's, tagged upload
C17_Witness ==
    /\ role = server
    /\ direction = download
    /\ yielded["local"] > 0
    /\ generator = "yield"
    /\ measurement.source = "peer"
    /\ measurement.tag = upload

\* C18: the sender's buffer starts at 2^13 bytes and is only ever doubled, and only
\* when its length is below MAX_SIZE and below transferred_bytes / 16; so its length
\* is 2^13 times a power of two, never above MAX_SIZE = 2^24, and it has been doubled
\* at most 11 times, whatever the sends and the bytes received in between.
C18_BufferGrowth ==
    /\ [](/\ msg = msg_initial * 2 ^ doublings
          /\ msg_initial = 2 ^ 13
          /\ MAX_SIZE = 2 ^ 24
          /\ msg <= MAX_SIZE
          /\ doublings <= 11)
    /\ [][/\ msg' >= msg
          /\ msg' # msg =>
                /\ msg' = 2 * msg
                /\ msg < MAX_SIZE
                /\ 16 * msg < transferred_bytes
                /\ doublings' = doublings + 1]_vars

\* The buffer was doubled 11 times, to MAX_SIZE, and a send went out at that size
\* although it is below transferred_bytes / 16
C18_Witness ==
    /\ doublings = 11
    /\ msg = MAX_SIZE
    /\ produced = "bytes"
    /\ 16 * msg < transferred_bytes - msg

\* C19: binary messages are sent by the client of an upload test and by the server
\* of a download test only.  The other end sends no binary message: each iteration
\* of its sender loop either sends one measurement as text or goes to sleep, and it
\* sleeps until the next measurement is due.
C19_OnlySenderSendsBinary ==
    /\ [](sent.bytes > 0 => SenderEnd)
    /\ [](~SenderEnd => /\ produced \in {"nothing", "measurement", "sleep"}
                        /\ msg = msg_initial)
    /\ [][~SenderEnd =>
            /\ sent'.str # sent.str => enqueued'["local"] = enqueued["local"] + 1
            /\ sleeping /\ ~sleeping' => elapsed >= next_measurement
            /\ ~sleeping /\ sleeping' => elapsed < next_measurement]_vars

\* The client of a download test has received binary data, has sent two measurements
\* and no binary message, and sleeps
C19_Witness ==
    /\ role = client
    /\ direction = download
    /\ transferred_bytes > 0
    /\ sent = [bytes |-> 0, str |-> 2]
    /\ sleeping
    /\ produced = "sleep"

\* C20, as claimed: every message taken by the receiver is handled in full: a binary
\* message adds its length to transferred_bytes and enqueues nothing, and a text
\* message, whatever it holds, enqueues exactly one measurement.
C20_EveryTextEnqueues ==
    [][received' = received + 1 =>
        IF message'.type = "bytes"
        THEN /\ transferred_bytes' = transferred_bytes + message'.len
             /\ enqueued' = enqueued
        ELSE /\ enqueued'["peer"] = enqueued["peer"] + 1
             /\ Len(measurements_queue') = Len(measurements_queue) + 1]_vars

\* C20, amended: a binary message adds exactly its length to transferred_bytes and
\* enqueues nothing; a text message that parses as a JSON object enqueues exactly one
\* measurement and leaves transferred_bytes alone, the measurement keeping the
\* peer's AppInfo when it has one and getting the AppInfo of the current elapsed
\* time and transferred_bytes otherwise; a text message that is no JSON enqueues
\* nothing.
C20_InboundMessage ==
    [][received' = received + 1 =>
        LET m == message'
        IN  /\ m.type = "bytes" =>
                /\ transferred_bytes' = transferred_bytes + m.len
                /\ measurements_queue' = measurements_queue
                /\ enqueued' = enqueued
            /\ m.type = "str" /\ m.json \in {"object_with_AppInfo", "object"} =>
                /\ transferred_bytes' = transferred_bytes
                /\ enqueued' = [enqueued EXCEPT !["peer"] = @ + 1]
                /\ Len(measurements_queue') = Len(measurements_queue) + 1
                /\ SubSeq(measurements_queue', 1, Len(measurements_queue))
                        = measurements_queue
                /\ LET item == measurements_queue'[Len(measurements_queue')]
                   IN  /\ item.source = "peer"
                       /\ item.AppInfo =
                            IF m.json = "object_with_AppInfo"
                            THEN PeerAppInfo
                            ELSE [ElapsedTime |-> elapsed * 100000,
                                  NumBytes |-> transferred_bytes]
            /\ m.type = "str" /\ m.json = "invalid" =>
                /\ measurements_queue' = measurements_queue
                /\ enqueued' = enqueued]_vars

\* The receiver counted a binary message, then took a measurement without AppInfo
\* one period into the session, which the generator yields with the synthesized
\* AppInfo
C20_Witness ==
    /\ generator = "yield"
    /\ measurement.source = "peer"
    /\ measurement.AppInfo = [ElapsedTime |-> 100000, NumBytes |-> msg_initial]
    /\ message.json = "object"
    /\ received = 2

\* The measurements of a handler that are on the queue, in queue order
Waiting(source) ==
    SelectSeq(measurements_queue, LAMBDA i : i # Sentinel /\ i.source = source)

\* No measurement follows a None on the queue
NothingBehindSentinel ==
    \A i, j \in 1..Len(measurements_queue) :
        i < j /\ measurements_queue[i] = Sentinel => measurements_queue[j] = Sentinel

\* Of each handler, the measurements enqueued are those yielded followed by those
\* waiting on the queue, each once and in the order of their enqueueing
NothingLostNorDuplicated ==
    \A source \in {"local", "peer"} :
        /\ Len(Waiting(source)) = enqueued[source] - yielded[source]
        /\ \A i \in 1..Len(Waiting(source)) :
               Waiting(source)[i].n = yielded[source] + i

\* A step of the queue: an item is appended at the back, or the generator takes the
\* front one and yields it unless it is None
QueueStep ==
    \/ UNCHANGED <<measurements_queue, yielded>>
    \/ /\ Len(measurements_queue') = Len(measurements_queue) + 1
       /\ SubSeq(measurements_queue', 1, Len(measurements_queue)) = measurements_queue
       /\ UNCHANGED yielded
    \/ /\ measurements_queue # <<>>
       /\ measurement' = Head(measurements_queue)
       /\ IF measurement' = Sentinel
          THEN /\ measurements_queue' = Append(Tail(measurements_queue), Sentinel)
               /\ UNCHANGED yielded
          ELSE /\ measurements_queue' = Tail(measurements_queue)
               /\ yielded' = [yielded EXCEPT ![measurement'.source] = @ + 1]

\* C39: the pairs yielded are the measurements enqueued before the first None, in
\* the order of their enqueueing: the generator takes the front of the queue and
\* everything else is appended at its back, nothing enqueued is lost or duplicated
\* and a caller that reads to the end has been yielded all of it; once a None has
\* been put no measurement is enqueued and after the end none is yielded; and the
\* sender's first action being a measurement, a None is put only after a local
\* measurement, which a caller that reads to the end has been yielded.
C39_YieldsEnqueuedUntilSentinel ==
    /\ [][QueueStep]_vars
    /\ [](NothingLostNorDuplicated /\ NothingBehindSentinel)
    /\ [](generator = "end" => yielded = enqueued)
    /\ [][(SentinelPut \/ Over) => enqueued' = enqueued]_vars
    /\ [][Over => yielded' = yielded]_vars
    /\ []((SentinelPut \/ Over) => enqueued["local"] >= 1)
    /\ [](generator = "end" => yielded["local"] >= 1)

\* The receiver ended on a closed connection after the peer's measurement and the
\* sender's two were enqueued; the caller has read to the end and has been yielded
\* the three of them, and the queue holds nothing but Nones
C39_Witness ==
    /\ generator = "end"
    /\ enqueued = [local |-> 2, peer |-> 1]
    /\ yielded = enqueued
    /\ tasks[consumer] \in {"finished", "failed"}
    /\ NumSentinels >= 2
    /\ Len(measurements_queue) = NumSentinels

----------------------------------------------------------------------------
(* PingStatistics (src/aionettools/ping/ping_stats.py) and quantiles          *)
(* (src/aionettools/util.py).  Times are in milliseconds of timer(); a quotient *)
(* of two integers is kept as the pair of them, den = 0 standing for None.    *)

Ratio(n, d) == [num |-> n, den |-> d]

\* F of the value of x, which is worked out once however often F uses it
Then(x, F(_)) == CHOOSE r \in {F(v) : v \in {x}} : TRUE
NoRatio == Ratio(0, 0)

\* PingResult.elapsed of a probe that has ended
Elapsed(r) == r.end - r.start

\* int(result.elapsed / PingStatistics.TIME_RESOLUTION)
elapsed_int(r) == Elapsed(r) * TIME_RESOLUTION

\* The key of PingStatistics.results: (start, seq, payload); two probes of one
\* engine never share (start, seq)
KeyLeq(ps, p, q) ==
    \/ ps[p].start < ps[q].start
    \/ ps[p].start = ps[q].start /\ ps[p].seq <= ps[q].seq

\* SortedList.add: after the items that are not greater
SortedAdd(list, x, Leq(_, _)) ==
    LET k == Cardinality({i \in 1..Len(list) : Leq(list[i], x)})
    IN  SubSeq(list, 1, k) \o <<x>> \o SubSeq(list, k + 1, Len(list))

Has(list, x) == \E i \in 1..Len(list) : list[i] = x

\* SortedList.discard, and SortedList.remove when the value is there: one
\* occurrence goes
SortedDiscard(list, x) ==
    IF Has(list, x)
    THEN LET i == CHOOSE j \in 1..Len(list) :
                      list[j] = x /\ \A k \in 1..(j - 1) : list[k] # x
         IN  SubSeq(list, 1, i - 1) \o SubSeq(list, i + 1, Len(list))
    ELSE list

\* Faulty variant: the sum of squares takes the elapsed time, not its square
add_ping_sum_not_squared(stats, ps, p, new) ==
    LET r == ps[p]
        counted == [stats.status_count EXCEPT ![r.status] = @ + 1]
        scheduled == IF new /\ counted[SCHEDULED] > 0
                     THEN [counted EXCEPT ![SCHEDULED] = @ - 1]
                     ELSE counted
        base == [stats EXCEPT !.changed = TRUE, !.total_sent = @ + 1,
                              !.status_count = scheduled,
                              !.results = IF stats.window # None
                                          THEN SortedAdd(@, p, LAMBDA a, b : KeyLeq(ps, a, b))
                                          ELSE @]
    IN  IF r.status = SUCCESS
        THEN [base EXCEPT !.elapsed_all = SortedAdd(@, Elapsed(r), LAMBDA a, b : a <= b),
                          !.elapsed_n = @ + 1,
                          !.elapsed_sum = @ + elapsed_int(r),
                          !.elapsed_sum_sqr = @ + elapsed_int(r)]
        ELSE base

\* PingStatistics.add_ping(result, new) without line 83, which the caller's step
\* does on the probe: ps are the probes and p the one added
add_ping(stats, ps, p, new) ==
    LET r == ps[p]
        counted == [stats.status_count EXCEPT ![r.status] = @ + 1]
        scheduled == IF new /\ counted[SCHEDULED] > 0
                     THEN [counted EXCEPT ![SCHEDULED] = @ - 1]
                     ELSE counted
        base == [stats EXCEPT !.changed = TRUE, !.total_sent = @ + 1,
                              !.status_count = scheduled,
                              !.results = IF stats.window # None
                                          THEN SortedAdd(@, p, LAMBDA a, b : KeyLeq(ps, a, b))
                                          ELSE @]
    IN  IF r.status = SUCCESS
        THEN [base EXCEPT !.elapsed_all = SortedAdd(@, Elapsed(r), LAMBDA a, b : a <= b),
                          !.elapsed_n = @ + 1,
                          !.elapsed_sum = @ + elapsed_int(r),
                          !.elapsed_sum_sqr = @ + elapsed_int(r) * elapsed_int(r)]
        ELSE base

\* Faulty variant: the callback that does not take the probe out of the window set
pending_done_cb_no_discard(stats, ps, p) ==
    Then([stats EXCEPT !.status_count[PENDING] = @ - 1, !.total_sent = @ - 1],
         LAMBDA counted : add_ping(counted, ps, p, FALSE))

\* PingStatistics.pending_done_cb(future), p being future.result()
pending_done_cb(stats, ps, p) ==
    Then([stats EXCEPT !.status_count[PENDING] = @ - 1,
                       !.total_sent = @ - 1,
                       !.results = IF stats.window # None
                                   THEN SortedDiscard(@, p) ELSE @],
         LAMBDA discarded : add_ping(discarded, ps, p, FALSE))

\* PingStatistics.remove_ping(result); raised: _elapsed_all.remove found no such
\* value and raised ValueError, the lines after it did not run
remove_ping(stats, ps, p) ==
    LET r == ps[p]
        base == [stats EXCEPT !.changed = TRUE,
                              !.results = SortedDiscard(@, p),
                              !.status_count[r.status] = @ - 1]
    IN  IF r.status # SUCCESS
        THEN [statistics |-> base, raised |-> FALSE]
        ELSE IF ~Has(stats.elapsed_all, Elapsed(r))
        THEN [statistics |-> base, raised |-> TRUE]
        ELSE [statistics |->
                  [base EXCEPT !.elapsed_all = SortedDiscard(@, Elapsed(r)),
                               !.elapsed_n = @ - 1,
                               !.elapsed_sum = @ - elapsed_int(r),
                               !.elapsed_sum_sqr = @ - elapsed_int(r) * elapsed_int(r)],
              raised |-> FALSE]

RECURSIVE flush_old(_, _, _)
\* PingStatistics.flush_old() at time t; removed: the probes it took out
flush_old(stats, ps, t) ==
    IF stats.window = None \/ stats.results = <<>>
    THEN [statistics |-> stats, raised |-> FALSE, removed |-> <<>>]
    ELSE LET p == Head(stats.results)
             keep_since == t - stats.window
         IN  IF ps[p].start >= keep_since
             THEN [statistics |-> stats, raised |-> FALSE, removed |-> <<>>]
             ELSE Then(remove_ping(stats, ps, p),
                       LAMBDA one :
                           IF one.raised
                           THEN [statistics |-> one.statistics, raised |-> TRUE,
                                 removed |-> <<p>>]
                           ELSE Then(flush_old(one.statistics, ps, t),
                                     LAMBDA rest : [rest EXCEPT !.removed = <<p>> \o @]))

\* The quantiles summary asks for, in quarters: (0, .25, .5, .75, 1)
Quarters == <<0, 1, 2, 3, 4>>

\* The value quantiles computes for the quantile k/4 of the sorted list data
\* (lines 55-60 of util.py): i = k/4 * (len - 1), taken apart into floor and fraction
Interpolate(data, k) ==
    LET i4 == k * (Len(data) - 1)
        i_int == i4 \div 4
        i_frac4 == i4 % 4
        value4 == (4 - i_frac4) * data[i_int + 1]
    IN  Ratio(IF i_frac4 > 0 THEN value4 + i_frac4 * data[i_int + 2] ELSE value4, 4)

\* quantiles(data, quantiles): the list ret is built and the function ends without
\* returning it, so the caller gets None, written <<>> (ret is never empty)
quantiles(data, qs) ==
    IF data = <<>>
    THEN <<>>
    ELSE LET ret == [j \in 1..Len(qs) |-> Interpolate(data, qs[j])]
         IN  <<>>

\* PingStatistics.Summary.loss
loss(summary) ==
    LET pong == summary.status_count[SUCCESS]
        lost == summary.status_count[TIMEOUT] + summary.status_count[UNREACHABLE]
        total == pong + lost
    IN  IF total > 0 THEN Ratio(lost, total) ELSE NoRatio

\* elapsed_var of summary (line 117): (sum_sqr - n * mean ** 2) / (n - 1), over the
\* common denominator n * (n - 1).  This is the exact quotient; what the floats of
\* the code make of it is float_elapsed_var below.
elapsed_var(stats) ==
    LET n == stats.elapsed_n
    IN  IF n >= 2
        THEN Ratio(n * stats.elapsed_sum_sqr - stats.elapsed_sum * stats.elapsed_sum,
                   n * (n - 1))
        ELSE NoRatio

\* Lines 116-130 of summary: the Summary built from the sums.  elapsed_std is kept
\* as the number whose root it is, and is 0 when math.sqrt raised.
Summary(stats) ==
    [status_count |-> stats.status_count,
     elapsed_mean |-> IF stats.elapsed_n >= 1
                      THEN Ratio(stats.elapsed_sum, stats.elapsed_n) ELSE NoRatio,
     elapsed_std |-> IF elapsed_var(stats).num < 0 THEN Ratio(0, 1)
                     ELSE elapsed_var(stats),
     elapsed_quantiles |-> quantiles(stats.elapsed_all, Quarters)]

\* The property PingStatistics.summary read at time t: the object after the read and
\* what the read gave
summary(stats, ps, t) ==
    IF stats.changed
    THEN Then(flush_old(stats, ps, t),
              LAMBDA old :
                  IF old.raised
                  THEN [statistics |-> old.statistics, raised |-> TRUE, flushed |-> TRUE,
                        removed |-> old.removed, summary |-> stats.cached_summary,
                        elapsed_var |-> NoRatio]
                  ELSE Then(Summary(old.statistics),
                            LAMBDA made :
                                [statistics |-> [old.statistics EXCEPT
                                                     !.cached_summary = made,
                                                     !.changed = FALSE],
                                 raised |-> FALSE, flushed |-> TRUE,
                                 removed |-> old.removed, summary |-> made,
                                 elapsed_var |-> elapsed_var(old.statistics)]))
    ELSE [statistics |-> stats, raised |-> FALSE, flushed |-> FALSE,
          removed |-> <<>>, summary |-> stats.cached_summary, elapsed_var |-> NoRatio]

----------------------------------------------------------------------------
(* ping_pretty (src/aionettools/ping/ping_main.py) over the ICMP engine, which is *)
(* taken here by what it does to a probe: it ends it once, hands the probe's      *)
(* done-callbacks to the loop, and keeps it in pending_pings until they ran.      *)

\* The values a step of ping_pretty or of its callbacks works on
Current ==
    [pc |-> pc, total_sent |-> total_sent, pause |-> pause, wake_at |-> wake_at,
     probes |-> probes, in_flight |-> in_flight, ready_queue |-> ready_queue,
     gather |-> gather, statistics |-> statistics, read |-> read,
     admitted |-> admitted, evicted |-> evicted]

\* The step that leaves the values st
Becomes(st) ==
    \E to \in {st} :
        /\ pc' = to.pc
        /\ total_sent' = to.total_sent
        /\ pause' = to.pause
        /\ wake_at' = to.wake_at
        /\ probes' = to.probes
        /\ in_flight' = to.in_flight
        /\ ready_queue' = to.ready_queue
        /\ gather' = to.gather
        /\ statistics' = to.statistics
        /\ read' = to.read
        /\ admitted' = to.admitted
        /\ evicted' = to.evicted

\* Handles in the loop's FIFO
DoneCallbacks(p) == [fn |-> "done_callbacks", probe |-> p]
GatherDone(p) == [fn |-> "gather_done", probe |-> p]
WakeUp == [fn |-> "wakeup", probe |-> 0]

\* Faulty variant: every host starts again from the first host's turn
host_addr_iterator_first_host(k) ==
    <<hostnames[1], host_addr[1][((k - 1) % Len(host_addr[1])) + 1]>>

\* The k-th item of more_itertools.interleave(*[zip(repeat(hostname),
\* cycle(addresses)) ...]): the hosts in turn, each host's addresses in a cycle
host_addr_iterator(k) ==
    LET h == ((k - 1) % Len(hostnames)) + 1
        turn == (k - 1) \div Len(hostnames)
    IN  <<hostnames[h], host_addr[h][(turn % Len(host_addr[h])) + 1]>>

\* interval after lines 112-113
interval ==
    IF args.interval = None
    THEN IF args.flood THEN flood_interval ELSE default_interval
    ELSE args.interval

\* total_count (line 114)
total_count ==
    IF args.count # None THEN args.count * Len(hostnames) ELSE None

\* The test of the while loop (line 118) when total_sent is n
while_test(n) ==
    /\ total_count = None \/ n < total_count
    /\ end = None \/ timer < end

\* Lines 122-129: total_sent += 1, ping.ping(addr, timeout, hostname=hostname), which
\* makes the PingResult and enters it in pending_pings, and add_ping on the
\* statistics, which hooks pending_done_cb on the probe's future
send(st) ==
    LET k == st.total_sent + 1
        item == host_addr_iterator(k)
        p == Len(st.probes) + 1
        ps == Append(st.probes,
                     [hostname |-> item[1], addr |-> item[2], seq |-> p - 1,
                      start |-> timer, end |-> None, status |-> PENDING])
    IN  [st EXCEPT !.total_sent = k,
                   !.probes = ps,
                   !.in_flight = @ \cup {p},
                   !.statistics = add_ping(@, ps, p, TRUE),
                   !.admitted = @ \cup {p}]

\* PingResult.complete(status) by the engine at the time timer: the future is done
\* and its callbacks go to the loop, gather's after the others
complete(st, p, status) ==
    IF st.probes[p].status = PENDING
    THEN [st EXCEPT !.probes[p].status = status,
                    !.probes[p].end = timer,
                    !.ready_queue = IF p \in st.gather
                                    THEN @ \o <<DoneCallbacks(p), GatherDone(p)>>
                                    ELSE Append(@, DoneCallbacks(p))]
    ELSE st

RECURSIVE complete_all(_, _, _)
\* for pending_ping in self.pending_pings.values(): pending_ping.complete(status)
complete_all(st, ps, status) ==
    IF ps = {} THEN st
    ELSE LET p == CHOOSE q \in ps : \A o \in ps : q <= o
         IN  Then(complete(st, p, status),
                  LAMBDA completed : complete_all(completed, ps \ {p}, status))

\* Line 132 and the exit of `async with Ping() as ping`: the summary is read, then
\* Ping.__aexit__ cancels what is left in pending_pings
return_summary(st) ==
    Then(summary(st.statistics, st.probes, timer),
         LAMBDA given :
             Then([st EXCEPT !.statistics = given.statistics,
                             !.read = [at |-> timer, raised |-> given.raised,
                                       flushed |-> given.flushed,
                                       summary |-> given.summary,
                                       elapsed_var |-> given.elapsed_var],
                             !.evicted = @ \o given.removed,
                             !.pc = IF given.raised THEN "raised" ELSE "returned"],
                  LAMBDA left : complete_all(left, left.in_flight, CANCELED)))

\* The futures of pending_pings.values(), in the order of the dict, that are done
DoneInFlight(st) ==
    LET RECURSIVE from(_)
        from(p) == IF p > Len(st.probes) THEN <<>>
                   ELSE IF p \in st.in_flight /\ st.probes[p].status # PENDING
                   THEN <<GatherDone(p)>> \o from(p + 1)
                   ELSE from(p + 1)
    IN  from(1)

\* Faulty variant: wait_pending that returns at once
wait_pending_no_wait(st) == return_summary(st)

\* Line 131, await ping.wait_pending(): gather over the futures of pending_pings.
\* With no future gather is done at once and ping_pretty goes on to line 132;
\* a future that is done already gets gather's callback scheduled at once.
wait_pending(st) ==
    IF st.in_flight = {}
    THEN return_summary(st)
    ELSE [st EXCEPT !.pc = "wait_pending",
                    !.gather = st.in_flight,
                    !.ready_queue = @ \o DoneInFlight(st)]

RECURSIVE while_loop(_)
\* Lines 118-131 from the test of the while loop up to the next await
while_loop(st) ==
    IF ~while_test(st.total_sent)
    THEN wait_pending([st EXCEPT !.wake_at = None])
    ELSE IF st.total_sent > 0
    THEN [st EXCEPT !.pc = "sleep", !.pause = interval, !.wake_at = timer + interval]
    ELSE Then(send(st), LAMBDA sent_one : while_loop(sent_one))

\* ping_pretty from the test of its loop to its first await: the first probe goes
\* out without a sleep before it
first_probe ==
    /\ pc = "while"
    /\ Becomes(while_loop(Current))
    /\ UNCHANGED <<args, hostnames, host_addr, end, timer>>
    /\ UNCHANGED beside_pretty

\* asyncio.sleep(interval) is over: the next probe goes out and the loop runs on to
\* its next await
next_probe ==
    /\ pc = "sleep"
    /\ timer >= wake_at
    /\ Becomes(Then(send([Current EXCEPT !.wake_at = None]),
                    LAMBDA sent_one : while_loop(sent_one)))
    /\ UNCHANGED <<args, hostnames, host_addr, end, timer>>
    /\ UNCHANGED beside_pretty

\* The engine ends probe p: an echo reply (SUCCESS), a failed sendto (UNREACHABLE)
\* or, once the timeout has run out, the timer of the probe (TIMEOUT)
probe_ends(p, status) ==
    /\ p \in 1..Len(probes)
    /\ probes[p].status = PENDING
    /\ status = TIMEOUT =>
           args.timeout # None /\ timer >= probes[p].start + args.timeout
    /\ Becomes(complete(Current, p, status))
    /\ UNCHANGED <<args, hostnames, host_addr, end, timer>>
    /\ UNCHANGED beside_pretty

\* The loop runs the done-callbacks of a probe: the lambda of Ping.ping takes it out
\* of pending_pings and PingStatistics.pending_done_cb counts it again
done_callbacks ==
    /\ ready_queue # <<>>
    /\ Head(ready_queue).fn = "done_callbacks"
    /\ LET p == Head(ready_queue).probe
       IN  Becomes([Current EXCEPT
                        !.ready_queue = Tail(@),
                        !.in_flight = @ \ {p},
                        !.statistics = pending_done_cb(@, probes, p)])
    /\ UNCHANGED <<args, hostnames, host_addr, end, timer>>
    /\ UNCHANGED beside_pretty

\* The loop runs the callback gather hooked on the future of a probe: when it was
\* the last one, wait_pending is over and ping_pretty is scheduled
gather_done ==
    /\ ready_queue # <<>>
    /\ Head(ready_queue).fn = "gather_done"
    /\ LET left == gather \ {Head(ready_queue).probe}
       IN  Becomes([Current EXCEPT
                        !.gather = left,
                        !.ready_queue = IF left = {} /\ pc = "wait_pending"
                                        THEN Append(Tail(@), WakeUp) ELSE Tail(@)])
    /\ UNCHANGED <<args, hostnames, host_addr, end, timer>>
    /\ UNCHANGED beside_pretty

\* ping_pretty resumes after wait_pending and returns
returns ==
    /\ ready_queue # <<>>
    /\ Head(ready_queue).fn = "wakeup"
    /\ Becomes(return_summary([Current EXCEPT !.ready_queue = Tail(@)]))
    /\ UNCHANGED <<args, hostnames, host_addr, end, timer>>
    /\ UNCHANGED beside_pretty

\* A caller other than ping_pretty issues a probe and adds it to the statistics
caller_add_ping ==
    /\ pc = "caller"
    /\ Len(probes) < MaxAdmitted
    /\ Becomes(send(Current))
    /\ UNCHANGED <<args, hostnames, host_addr, end, timer>>
    /\ UNCHANGED beside_pretty

\* A caller other than ping_pretty reads statistics.summary, as the columns of
\* PingProgressBar do on every refresh
caller_summary ==
    /\ pc = "caller"
    /\ \E given \in {summary(statistics, probes, timer)} :
           Becomes([Current EXCEPT
                        !.statistics = given.statistics,
                        !.read = [at |-> timer, raised |-> given.raised,
                                  flushed |-> given.flushed,
                                  summary |-> given.summary,
                                  elapsed_var |-> given.elapsed_var],
                        !.evicted = @ \o given.removed])
    /\ UNCHANGED <<args, hostnames, host_addr, end, timer>>
    /\ UNCHANGED beside_pretty

\* What the loop is waiting for: the timers of the probes and the sleep of the loop
Deadlines ==
    {probes[p].start + args.timeout :
         p \in {q \in 1..Len(probes) : probes[q].status = PENDING /\ args.timeout # None}}
    \cup (IF pc = "sleep" THEN {wake_at} ELSE {})

\* Time passes while the loop has nothing to run: up to the next deadline under
\* ping_pretty, by a millisecond under another caller
time_passes ==
    /\ ready_queue = <<>>
    /\ \A d \in Deadlines : d > timer
    /\ IF pc = "caller"
       THEN timer < MaxClock /\ timer' = timer + 1
       ELSE /\ Deadlines # {}
            /\ timer' = CHOOSE d \in Deadlines : \A e \in Deadlines : d <= e
    /\ UNCHANGED <<args, hostnames, host_addr, pc, total_sent, end, pause, wake_at,
                   probes, in_flight, gather, ready_queue, statistics, read, admitted,
                   evicted>>
    /\ UNCHANGED beside_pretty

EndStatus == {SUCCESS, UNREACHABLE, TIMEOUT}

\* A PingStatistics with or without a window, fresh or with one probe scheduled, fed
\* by a caller whose probes outlive the window
StatsInit ==
    /\ PingInit
    /\ handle_websocket(client, download, SlowLink, QuietPeer)
    /\ NDT7Statistics(None)
    /\ \E w \in {None, Window}, num_scheduled \in {0, 1} :
           PingStatisticsCaller(w, num_scheduled, Timeout)

StatsNext ==
    \/ caller_add_ping
    \/ \E p \in DOMAIN probes, status \in EndStatus : probe_ends(p, status)
    \/ done_callbacks
    \/ caller_summary
    \/ time_passes

StatsSpec == StatsInit /\ [][StatsNext]_vars

\* The arguments ping_pretty is explored with: a count, a duration or both
PrettyArgs ==
    {a \in [count : {None, 1, 2}, duration : {None, Duration},
            interval : {None, Interval}, window : {None, Window},
            timeout : {Timeout}, flood : BOOLEAN, num_scheduled : {0}] :
         /\ a.count # None \/ a.duration # None
         /\ a.flood => a.interval = None}

\* One host with two addresses, or two hosts with two addresses and one
PrettyHosts ==
    {[names |-> <<"a.example">>, addrs |-> <<<<"192.0.2.1", "2001:db8::1">>>>],
     [names |-> <<"a.example", "b.example">>,
      addrs |-> <<<<"192.0.2.1", "2001:db8::1">>, <<"192.0.2.2">>>>]}

PrettyInit ==
    /\ PingInit
    /\ handle_websocket(client, download, SlowLink, QuietPeer)
    /\ NDT7Statistics(None)
    /\ \E h \in PrettyHosts, a \in PrettyArgs : ping_pretty(h.names, h.addrs, a)

PrettyNext ==
    \/ first_probe
    \/ next_probe
    \/ \E p \in DOMAIN probes, status \in EndStatus : probe_ends(p, status)
    \/ done_callbacks
    \/ gather_done
    \/ returns
    \/ time_passes

PrettySpec == PrettyInit /\ [][PrettyNext]_vars

\* The loop runs what is ready, fires the timers that are due and lets time pass
PrettyFairSpec ==
    /\ PrettySpec
    /\ WF_vars(first_probe)
    /\ WF_vars(next_probe)
    /\ WF_vars(\E p \in DOMAIN probes : probe_ends(p, TIMEOUT))
    /\ WF_vars(done_callbacks)
    /\ WF_vars(gather_done)
    /\ WF_vars(returns)
    /\ WF_vars(time_passes)

----------------------------------------------------------------------------
(* The floats of PingStatistics.  TLC's integers have 32 bits, so a natural number *)
(* is kept as the sequence of its digits in base 2^15, lowest first, and a float   *)
(* as [m, e]: the number m * 2^e with m of at most 53 bits.                        *)

Limb == 2 ^ 15

RECURSIVE Big(_)
Big(n) == IF n = 0 THEN <<>> ELSE <<n % Limb>> \o Big(n \div Limb)

RECURSIVE Normal(_)
Normal(a) == IF a # <<>> /\ a[Len(a)] = 0 THEN Normal(SubSeq(a, 1, Len(a) - 1)) ELSE a

Rest(a) == IF a = <<>> THEN <<>> ELSE Tail(a)
Low(a) == IF a = <<>> THEN 0 ELSE Head(a)

RECURSIVE BigAddC(_, _, _)
BigAddC(a, b, carry) ==
    IF a = <<>> /\ b = <<>>
    THEN Big(carry)
    ELSE LET x == Low(a) + Low(b) + carry
         IN  <<x % Limb>> \o BigAddC(Rest(a), Rest(b), x \div Limb)
BigAdd(a, b) == BigAddC(a, b, 0)

RECURSIVE BigSubB(_, _, _)
BigSubB(a, b, borrow) ==
    IF a = <<>> THEN <<>>
    ELSE LET x == Low(a) - Low(b) - borrow
         IN  IF x < 0 THEN <<x + Limb>> \o BigSubB(Rest(a), Rest(b), 1)
             ELSE <<x>> \o BigSubB(Rest(a), Rest(b), 0)
BigSub(a, b) == Normal(BigSubB(a, b, 0))

RECURSIVE BigTimesC(_, _, _)
BigTimesC(a, m, carry) ==
    IF a = <<>> THEN Big(carry)
    ELSE LET x == Head(a) * m + carry
         IN  <<x % Limb>> \o BigTimesC(Tail(a), m, x \div Limb)
BigTimes(a, m) == Normal(BigTimesC(a, m, 0))

Up(a) == IF a = <<>> THEN <<>> ELSE <<0>> \o a

RECURSIVE BigMul(_, _)
BigMul(a, b) ==
    IF b = <<>> THEN <<>>
    ELSE Then(BigMul(a, Tail(b)), LAMBDA high : BigAdd(BigTimes(a, Head(b)), Up(high)))

RECURSIVE BigLess(_, _)
BigLess(a, b) ==
    IF Len(a) # Len(b) THEN Len(a) < Len(b)
    ELSE IF a = <<>> THEN FALSE
    ELSE IF a[Len(a)] # b[Len(b)] THEN a[Len(a)] < b[Len(b)]
    ELSE BigLess(SubSeq(a, 1, Len(a) - 1), SubSeq(b, 1, Len(b) - 1))

RECURSIVE BigDivR(_, _, _)
\* quotient limbs (little-endian) and remainder of (r * Limb^Len(a) + a) by d, r < d < Limb
BigDivR(a, d, r) ==
    IF a = <<>> THEN [q |-> <<>>, r |-> r]
    ELSE LET x == r * Limb + a[Len(a)]
         IN  Then(BigDivR(SubSeq(a, 1, Len(a) - 1), d, x % d),
                  LAMBDA low : [q |-> Append(low.q, x \div d), r |-> low.r])
BigDiv(a, d) == Then(BigDivR(a, d, 0), LAMBDA qr : [q |-> Normal(qr.q), r |-> qr.r])

RECURSIVE Bits(_)
Bits(n) == IF n = 0 THEN 0 ELSE 1 + Bits(n \div 2)
bit_length(a) == IF a = <<>> THEN 0 ELSE 15 * (Len(a) - 1) + Bits(a[Len(a)])

RECURSIVE Zeros(_)
Zeros(k) == IF k = 0 THEN <<>> ELSE <<0>> \o Zeros(k - 1)
\* a * 2^k
Shl(a, k) == IF a = <<>> THEN <<>> ELSE Zeros(k \div 15) \o BigTimes(a, 2 ^ (k % 15))
\* floor(a / 2^k)
Shr(a, k) ==
    IF k \div 15 >= Len(a) THEN <<>>
    ELSE BigDiv(SubSeq(a, (k \div 15) + 1, Len(a)), 2 ^ (k % 15)).q

Odd(a) == a # <<>> /\ a[1] % 2 = 1

\* a / 2^k rounded to the nearest integer, ties to even (k >= 1)
ShrRound(a, k) ==
    Then(Shr(a, k - 1),
         LAMBDA q1 :
             LET q == Shr(q1, 1)
                 sticky == Shl(q1, k - 1) # a
             IN  IF Odd(q1) /\ (sticky \/ Odd(q)) THEN BigAdd(q, Big(1)) ELSE q)

\* the exact number m * 2^e rounded to a float
fl(m, e) ==
    IF bit_length(m) <= mant_dig THEN [m |-> m, e |-> e]
    ELSE LET k == bit_length(m) - mant_dig
         IN  [m |-> ShrRound(m, k), e |-> e + k]

\* float(s) / n for integers 0 < n <= s: 54 bits of the quotient, then rounding
true_divide(s, n) ==
    LET k == (mant_dig + 1) - Bits(s \div n)
    IN  Then(BigDiv(Shl(Big(s), k), n),
             LAMBDA qr :
                 LET q == Shr(qr.q, 1)
                 IN  [m |-> IF Odd(qr.q) /\ (qr.r # 0 \/ Odd(q)) THEN BigAdd(q, Big(1)) ELSE q,
                      e |-> 1 - k])

float_mul(a, b) == fl(BigMul(a.m, b.m), a.e + b.e)

\* a ** 2 of the C library: the square rounded to a float; when the square lies
\* midway between two floats the library may give either
float_pow2(a) ==
    LET m == BigMul(a.m, a.m)
        k == bit_length(m) - mant_dig
    IN  IF k <= 0 THEN {[m |-> m, e |-> 2 * a.e]}
        ELSE IF Shl(Shr(m, k - 1), k - 1) = m /\ Odd(Shr(m, k - 1))
        THEN {[m |-> Shr(m, k), e |-> 2 * a.e + k],
              [m |-> BigAdd(Shr(m, k), Big(1)), e |-> 2 * a.e + k]}
        ELSE {[m |-> ShrRound(m, k), e |-> 2 * a.e + k]}

\* -1, 0 or 1 as the integer q is below, at or above the float f
Compare(q, f) ==
    LET x == IF f.e < 0 THEN Shl(q, 0 - f.e) ELSE q
        y == IF f.e < 0 THEN f.m ELSE Shl(f.m, f.e)
    IN  IF BigLess(x, y) THEN 0 - 1 ELSE IF BigLess(y, x) THEN 1 ELSE 0


\* The integer a as the float nearest to it, again as an integer
float_int(a) ==
    IF bit_length(a) <= mant_dig THEN a
    ELSE Shl(ShrRound(a, bit_length(a) - mant_dig), bit_length(a) - mant_dig)

\* Lines 85-90 of add_ping for a SUCCESS outcome of elapsed_int = micros
add_success(micros) ==
    /\ Len(elapsed_ints) < MaxSamples
    /\ elapsed_ints' = Append(elapsed_ints, micros)
    /\ sums' = [n |-> sums.n + 1,
                sum |-> sums.sum + micros,
                sum_sqr |-> float_int(BigAdd(sums.sum_sqr,
                                             BigMul(Big(micros), Big(micros))))]
    /\ UNCHANGED variance
    /\ UNCHANGED beside_sums

\* Lines 96-101 of remove_ping for the i-th SUCCESS outcome held
remove_success(i) ==
    /\ i \in DOMAIN elapsed_ints
    /\ LET micros == elapsed_ints[i]
           square == BigMul(Big(micros), Big(micros))
       IN  /\ ~BigLess(sums.sum_sqr, square)
           /\ sums' = [n |-> sums.n - 1,
                       sum |-> sums.sum - micros,
                       sum_sqr |-> float_int(BigSub(sums.sum_sqr, square))]
    /\ elapsed_ints' = SubSeq(elapsed_ints, 1, i - 1)
                       \o SubSeq(elapsed_ints, i + 1, Len(elapsed_ints))
    /\ UNCHANGED variance
    /\ UNCHANGED beside_sums

\* Line 117 of summary: the signs elapsed_var can have, that of
\* _elapsed_sum_sqr - _elapsed_n * elapsed_mean ** 2 (n - 1 is positive)
float_elapsed_var(given) ==
    LET elapsed_mean == true_divide(given.sum, given.n)
    IN  {Compare(given.sum_sqr, float_mul([m |-> Big(given.n), e |-> 0], square)) :
             square \in float_pow2(elapsed_mean)}

\* Lines 116-122 of summary: elapsed_var is None below two outcomes; math.sqrt raises
\* on a negative one, and summary then prints "!!!" and reports elapsed_std = 0
read_variance ==
    /\ IF sums.n >= 2 /\ sums.sum >= sums.n
       THEN \E sign \in float_elapsed_var(sums) :
                variance' = [read |-> TRUE, none |-> FALSE, sign |-> sign,
                             sqrt_raised |-> sign < 0]
       ELSE variance' = [read |-> TRUE, none |-> TRUE, sign |-> 0, sqrt_raised |-> FALSE]
    /\ UNCHANGED <<elapsed_ints, sums>>
    /\ UNCHANGED beside_sums

\* Round trips of tens of seconds, a microsecond apart, and short ones
LongReplies == {47458476, 47458477, 250000, 1000}

\* A PingStatistics without window counting answers of these round trips
SumsInit ==
    /\ PingInit
    /\ handle_websocket(client, download, SlowLink, QuietPeer)
    /\ PingStatisticsCaller(None, 0, Timeout)
    /\ NDT7Statistics(None)

SumsNext ==
    \/ \E micros \in LongReplies : add_success(micros)
    \/ \E i \in DOMAIN elapsed_ints : remove_success(i)
    \/ read_variance

SumsSpec == SumsInit /\ [][SumsNext]_vars

----------------------------------------------------------------------------
(* NDT7Statistics (src/aionettools/ndt7/ndt7_stats.py).  A measurement is the dict *)
(* update works on: it names its AppInfo and TCPInfo objects by their place in     *)
(* the heap, None when it has none.  Times are in microseconds.                    *)

\* `key in measurement`
In(m, key) == m[key] # None

\* NDT7Statistics.time_difference(a, b), in microseconds
time_difference(objects, a, b) ==
    IF In(a, "AppInfo") /\ In(b, "AppInfo")
    THEN objects[b.AppInfo].ElapsedTime - objects[a.AppInfo].ElapsedTime
    ELSE IF In(a, "TCPInfo") /\ In(b, "TCPInfo")
    THEN objects[b.TCPInfo].ElapsedTime - objects[a.TCPInfo].ElapsedTime
    ELSE b.timestamp - a.timestamp

RECURSIVE drop_initial(_)
\* Lines 45-46: while len(group_data) >= 3 and group_data[0] is INITIAL_MEASUREMENT
drop_initial(group_data) ==
    IF Len(group_data) >= 3 /\ group_data[1] = INITIAL_MEASUREMENT
    THEN drop_initial(Tail(group_data))
    ELSE group_data

RECURSIVE pop_second(_)
\* Lines 49-50: while len(group_data) >= 3: group_data.pop(1)
pop_second(group_data) ==
    IF Len(group_data) >= 3
    THEN pop_second(<<group_data[1]>> \o SubSeq(group_data, 3, Len(group_data)))
    ELSE group_data

\* Faulty variant: `if` in place of `while`, one element at most is dropped
pop_first_once(objects, group_data, w) ==
    IF /\ Len(group_data) >= 3
       /\ time_difference(objects, group_data[2], group_data[Len(group_data)]) >= w
    THEN Tail(group_data)
    ELSE group_data

RECURSIVE pop_first_second(_, _, _)
\* Faulty variant: group_data.pop(1) in place of group_data.pop(0)
pop_first_second(objects, group_data, w) ==
    IF /\ Len(group_data) >= 3
       /\ time_difference(objects, group_data[2], group_data[Len(group_data)]) >= w
    THEN pop_first_second(objects,
                          <<group_data[1]>> \o SubSeq(group_data, 3, Len(group_data)), w)
    ELSE group_data

RECURSIVE pop_first(_, _, _)
\* Lines 52-53: while len(group_data) >= 3 and time_difference(group_data[1],
\* group_data[-1]) >= window: group_data.pop(0)
pop_first(objects, group_data, w) ==
    IF /\ Len(group_data) >= 3
       /\ time_difference(objects, group_data[2], group_data[Len(group_data)]) >= w
    THEN pop_first(objects, Tail(group_data), w)
    ELSE group_data

\* Faulty variant: without window the list is trimmed from its head
trim_from_head(objects, group_data, w) ==
    IF w = None
    THEN IF Len(group_data) >= 3
         THEN SubSeq(group_data, Len(group_data) - 1, Len(group_data))
         ELSE group_data
    ELSE pop_first(objects, group_data, w)

\* Lines 45-53 of update: what is left of the group's list after the append
trim(objects, group_data, w) ==
    Then(drop_initial(group_data),
         LAMBDA kept : IF w = None THEN pop_second(kept) ELSE pop_first(objects, kept, w))

\* Lines 64 and 79-88: the Rate of a sub-record, each quotient per microsecond (the
\* code's, per second, is 10^6 times that).  AppInfo's holds NumBytes alone.
Rate(Delta, key) ==
    IF key = "AppInfo"
    THEN [NumBytes |-> Ratio(Delta.NumBytes, Delta.ElapsedTime)]
    ELSE [ElapsedTime |-> Ratio(Delta.ElapsedTime, Delta.ElapsedTime),
          NumBytes |-> Ratio(Delta.NumBytes, Delta.ElapsedTime)]

\* Faulty variant: Rate is attached whatever the elapsed time
annotate_always_rate(objects, before, after, key) ==
    IF In(before, key) /\ In(after, key)
    THEN LET b == objects[before[key]]
             a == objects[after[key]]
             Delta == [ElapsedTime |-> a.ElapsedTime - b.ElapsedTime,
                       NumBytes |-> a.NumBytes - b.NumBytes]
         IN  [objects EXCEPT ![after[key]] =
                 [@ EXCEPT !.Delta = Delta,
                           !.Rate = Rate(Delta, key)]]
    ELSE objects

\* Lines 57-64 for AppInfo, 66-89 for TCPInfo: Delta and Rate written into the
\* object `key` of after.  Rate is the quotient per microsecond; the code's, per
\* second, is 10^6 times that.
annotate(objects, before, after, key) ==
    IF In(before, key) /\ In(after, key)
    THEN LET b == objects[before[key]]
             a == objects[after[key]]
             Delta == [ElapsedTime |-> a.ElapsedTime - b.ElapsedTime,
                       NumBytes |-> a.NumBytes - b.NumBytes]
         IN  [objects EXCEPT ![after[key]] =
                 [@ EXCEPT !.Delta = Delta,
                           !.Rate = IF Delta.ElapsedTime > rate_threshold
                                    THEN Rate(Delta, key)
                                    ELSE @]]
    ELSE objects

\* NDT7Statistics.update(measurement, group) at the time t on the aggregator
\* [window, groups] over the objects of the heap: the aggregator and the heap after
\* the call, and the measurement returned
update(aggregator, objects, m, group, t) ==
    LET copied == [m EXCEPT !.timestamp = t]
        group_data == IF group \in DOMAIN aggregator.groups
                      THEN aggregator.groups[group] ELSE <<>>
    IN  Then(trim(objects, Append(group_data, copied), aggregator.window),
             LAMBDA trimmed :
                 LET before == IF Len(trimmed) > 1 THEN trimmed[1] ELSE INITIAL_MEASUREMENT
                 IN  Then(annotate(objects, before, copied, "AppInfo"),
                          LAMBDA app_done :
                              [groups |-> [g \in DOMAIN aggregator.groups \cup {group} |->
                                               IF g = group THEN trimmed
                                               ELSE aggregator.groups[g]],
                               heap |-> annotate(app_done, before, copied, "TCPInfo"),
                               returned |-> copied]))

\* What a measurement of the peer holds
Contents == {<<"AppInfo">>, <<"TCPInfo">>, <<"AppInfo", "TCPInfo">>}
ElapsedTimes == {0, 100000, 200000, 5100000}

\* The caller receives a measurement (json.loads makes its objects anew) whose
\* counters are at elapsed_time, and feeds it to update for the group
feed(group, contents, elapsed_time) ==
    /\ Len(heap) < 2 + 2 * MaxUpdates
    /\ LET n == Len(heap)
           has(key) == \E i \in DOMAIN contents : contents[i] = key
           m == [AppInfo |-> IF has("AppInfo") THEN n + 1 ELSE None,
                 TCPInfo |-> IF has("TCPInfo") THEN n + 2 ELSE None,
                 timestamp |-> None]
           \* one message more has been counted with each measurement
           made == heap \o <<Info(elapsed_time, msg_initial * (n \div 2)),
                             Info(elapsed_time, msg_initial * (n \div 2))>>
       IN  \E given \in {update([window |-> stats_window, groups |-> groups], made, m,
                                group, perf_counter)} :
               /\ groups' = given.groups
               /\ heap' = given.heap
               /\ updated' = [group |-> group, passed |-> m, returned |-> given.returned]
               /\ inserted' = [g \in DOMAIN given.groups |->
                                  IF g \in DOMAIN inserted
                                  THEN IF g = group THEN Append(inserted[g], given.returned)
                                       ELSE inserted[g]
                                  ELSE <<given.returned>>]
    /\ perf_counter' = perf_counter + UpdateEvery
    /\ UNCHANGED <<stats_window, second, alone>>
    /\ UNCHANGED beside_groups

\* The sub-records of a measurement as they are among the objects
SubRecords(objects, m) ==
    [key \in {"AppInfo", "TCPInfo"} |->
        IF In(m, key) THEN objects[m[key]] ELSE [absent |-> TRUE]]

\* The objects, with the sub-records of m as json.loads made them
Pristine(objects, m) ==
    [i \in DOMAIN objects |->
        IF i \in {m.AppInfo, m.TCPInfo}
        THEN Info(objects[i].ElapsedTime, objects[i].NumBytes)
        ELSE objects[i]]

\* The caller passes the measurement it has just passed to update, the same object,
\* to the update of a second aggregator as well, as the two widgets of one progress
\* bar do with the bar's measurement
feed_again ==
    /\ updated.group # ""
    /\ alone.passed # updated.passed
    /\ LET m == updated.passed
           aggregator == [window |-> stats_window, groups |-> second]
       IN  \E given \in {update(aggregator, heap, m, updated.group, perf_counter)},
              apart \in {update(aggregator, Pristine(heap, m), m, updated.group,
                                perf_counter)} :
               /\ second' = given.groups
               /\ heap' = given.heap
               /\ alone' = [shared |-> TRUE, passed |-> m,
                            first |-> SubRecords(heap, m),
                            second |-> SubRecords(apart.heap, m)]
    /\ perf_counter' = perf_counter + UpdateEvery
    /\ UNCHANGED <<stats_window, groups, inserted, updated>>
    /\ UNCHANGED beside_groups

\* An aggregator with or without window, fed measurements in any order
GroupsInit ==
    /\ PingInit
    /\ handle_websocket(client, download, SlowLink, QuietPeer)
    /\ PingStatisticsCaller(None, 0, Timeout)
    /\ \E w \in {None, StatsWindow} : NDT7Statistics(w)

GroupsNext ==
    \E group \in Direction, contents \in Contents, elapsed_time \in ElapsedTimes :
        feed(group, contents, elapsed_time)

GroupsSpec == GroupsInit /\ [][GroupsNext]_vars

\* Two aggregators: every measurement goes to the first, any of them to the second too
SharedNext ==
    \/ \E contents \in Contents, elapsed_time \in ElapsedTimes :
           feed(download, contents, elapsed_time)
    \/ feed_again

SharedSpec == GroupsInit /\ [][SharedNext]_vars

----------------------------------------------------------------------------
(* Properties of PingStatistics *)

\* sum(status_count.values())
Sum(status_count) ==
    status_count[SCHEDULED] + status_count[PENDING] + status_count[SUCCESS]
    + status_count[UNREACHABLE] + status_count[TIMEOUT] + status_count[CANCELED]

\* The probes the window has evicted
Evicted == {evicted[i] : i \in DOMAIN evicted}

\* C21: in a PingStatistics created with num_scheduled = 0, whatever the order of
\* add_ping calls, completions and evictions, the status counts add up to the
\* number of probes admitted minus the number of probes the window has evicted.
C21_CountsAddUp ==
    args.num_scheduled = 0 =>
        Sum(statistics.status_count) = Cardinality(admitted) - Cardinality(Evicted)

\* The probes of the window set that started before t - window
Stale(stats, ps, t) ==
    {stats.results[i] : i \in {j \in DOMAIN stats.results :
                                   ps[stats.results[j]].start < t - stats.window}}

\* C22: with a window, every read of summary, whether or not a probe was added or
\* completed since the read before, evicts every outcome that started before
\* now - window, so that no read leaves such an outcome counted.
C22_EveryReadEvicts ==
    [][(read' # read /\ ~read'.raised /\ statistics.window # None)
           => Stale(statistics', probes', timer') = {}]_vars

\* The loop is about to run the done-callbacks of probe p, and the step runs them
CallbackStep(p) ==
    /\ ready_queue # <<>>
    /\ Head(ready_queue) = DoneCallbacks(p)
    /\ ready_queue' = Tail(ready_queue)

\* Number of times x is in list
Occurrences(list, x) == Cardinality({i \in DOMAIN list : list[i] = x})

\* C23: when a probe added while PENDING completes, its completion callback takes
\* one off the PENDING count and ingests the probe once under its terminal status,
\* adding its elapsed time to the latency sums when it is SUCCESS; total_sent is as
\* before and the probe is at most once in the window set.
C23_CompletionReingestsOnce ==
    [][\A p \in DOMAIN probes :
           CallbackStep(p) =>
               LET was == statistics
                   is == statistics'
                   status == probes[p].status
                   x == elapsed_int(probes[p])
               IN  /\ status \in Terminal
                   /\ is.status_count =
                          [was.status_count EXCEPT ![PENDING] = @ - 1,
                                                   ![status] = @ + 1]
                   /\ is.total_sent = was.total_sent
                   /\ IF status = SUCCESS
                      THEN /\ is.elapsed_n = was.elapsed_n + 1
                           /\ is.elapsed_sum = was.elapsed_sum + x
                           /\ is.elapsed_sum_sqr = was.elapsed_sum_sqr + x * x
                           /\ Len(is.elapsed_all) = Len(was.elapsed_all) + 1
                      ELSE /\ is.elapsed_n = was.elapsed_n
                           /\ is.elapsed_sum = was.elapsed_sum
                           /\ is.elapsed_sum_sqr = was.elapsed_sum_sqr
                           /\ is.elapsed_all = was.elapsed_all
                   /\ Occurrences(is.results, p)
                          = IF was.window # None THEN 1 ELSE 0]_vars

\* C23 witness: with a window, a probe added while PENDING was answered after a
\* millisecond or more and its callback has run: it is counted as SUCCESS, no longer
\* as PENDING, its time is in the sums and it is once in the window set.
C23_Witness ==
    /\ statistics.window # None
    /\ Len(probes) >= 1
    /\ probes[1].status = SUCCESS
    /\ 1 \notin in_flight
    /\ statistics.status_count[SUCCESS] = 1
    /\ statistics.status_count[PENDING] = 0
    /\ statistics.elapsed_sum > 0
    /\ Occurrences(statistics.results, 1) = 1

\* C37: in every reachable state of PingStatistics, for any window, probe timeout
\* and interleaving of add_ping, completions and summary reads, every status_count
\* entry and the success count _elapsed_n are >= 0; a probe the window evicted while
\* it was PENDING neither makes the PENDING count negative nor is counted again when
\* it completes later.
C37_CountsNotNegative ==
    /\ \A status \in Status : statistics.status_count[status] >= 0
    /\ statistics.elapsed_n >= 0
    /\ \A p \in Evicted :
           statistics.window # None => Occurrences(statistics.results, p) = 0

\* The running sums of the statistics are the sums of the elapsed times held, so
\* that in exact arithmetic sum_sqr >= sum^2 / n and the variance is not negative
SumsConsistent ==
    /\ statistics.elapsed_n = Len(statistics.elapsed_all)
    /\ statistics.elapsed_n >= 1 =>
           statistics.elapsed_n * statistics.elapsed_sum_sqr
               >= statistics.elapsed_sum * statistics.elapsed_sum
    /\ elapsed_var(statistics).num >= 0
    /\ read.at # None => read.elapsed_var.num >= 0

\* A SUCCESS outcome was evicted by the window and another one is in the sums, and
\* a summary was computed from them
SumsConsistentWitness ==
    /\ \E i \in DOMAIN evicted : probes[evicted[i]].status = SUCCESS
    /\ statistics.elapsed_n >= 1
    /\ statistics.elapsed_sum > 0
    /\ read.at # None /\ ~read.raised /\ read.summary.elapsed_mean.num > 0

\* C24: after any sequence of admissions and evictions the running sums, kept in
\* whole microseconds, satisfy sum_sqr >= sum^2 / n whenever n >= 1, so the variance
\* summary computes is never negative.
C24_VarianceNotNegative ==
    /\ sums.n >= 1 =>
           ~BigLess(BigTimes(sums.sum_sqr, sums.n), BigMul(Big(sums.sum), Big(sums.sum)))
    /\ variance.read => variance.sign >= 0

\* C25: for a non-empty sorted collection x of n SUCCESS elapsed times, quantiles
\* returns for each q the interpolation (1 - (i - f)) * x[f] + (i - f) * x[f+1] with
\* i = q * (n - 1) and f = floor(i); the values do not decrease with q, q = 0 gives
\* the minimum and q = 1 the maximum, and summary.elapsed_quantiles holds them for
\* q = 0, 0.25, 0.5, 0.75, 1.
C25_QuantilesInterpolate ==
    LET x == statistics.elapsed_all
        expected == [j \in 1..Len(Quarters) |-> Interpolate(x, Quarters[j])]
    IN  x # <<>> =>
            /\ quantiles(x, Quarters) = expected
            /\ expected[1] = Ratio(4 * x[1], 4)
            /\ expected[5] = Ratio(4 * x[Len(x)], 4)
            /\ \A j \in 1..4 : expected[j].num <= expected[j + 1].num
            /\ Summary(statistics).elapsed_quantiles = expected

\* A summary was returned by the last read
Returned == read.at # None /\ ~read.raised /\ ~("unset" \in DOMAIN read.summary)

\* Every probe issued has ended with status s, its callbacks have run and the
\* summary was read since
AllEnded(s) ==
    /\ probes # <<>>
    /\ \A p \in DOMAIN probes : probes[p].status = s
    /\ ready_queue = <<>>

\* C26: Summary.loss is (TIMEOUT + UNREACHABLE) / (SUCCESS + TIMEOUT + UNREACHABLE)
\* over the counted outcomes and undefined when that denominator is 0, whatever the
\* PENDING, SCHEDULED and CANCELED counts; elapsed_mean is undefined exactly when no
\* SUCCESS outcome is counted.  A run whose probes all time out reports loss 1.0 and
\* no mean; a run whose probes all succeed reports loss 0.
C26_LossAndMean ==
    Returned =>
        LET c == read.summary.status_count
            lost == c[TIMEOUT] + c[UNREACHABLE]
            total == c[SUCCESS] + lost
        IN  /\ loss(read.summary) = IF total = 0 THEN NoRatio ELSE Ratio(lost, total)
            /\ read.summary.elapsed_mean = NoRatio <=> c[SUCCESS] = 0
            /\ (AllEnded(TIMEOUT) /\ ~statistics.changed /\ statistics.window = None)
                   => /\ loss(read.summary) = Ratio(Len(probes), Len(probes))
                      /\ read.summary.elapsed_mean = NoRatio
            /\ (AllEnded(SUCCESS) /\ ~statistics.changed /\ statistics.window = None)
                   => loss(read.summary) = Ratio(0, Len(probes))

----------------------------------------------------------------------------
(* Properties of ping_pretty *)

\* The probes issued to the h-th host, by their rank among all probes
ToHost(h) == {k \in DOMAIN probes : probes[k].hostname = hostnames[h]}

\* Probes go to the hosts in turn, and each host's probes walk through its addresses
\* in a cycle, from the first one
RoundRobin ==
    /\ \A k \in DOMAIN probes : probes[k].hostname = hostnames[((k - 1) % Len(hostnames)) + 1]
    /\ \A h \in DOMAIN hostnames : \A k \in ToHost(h) :
           LET A == host_addr[h]
               earlier == {j \in ToHost(h) : j < k}
           IN  IF earlier = {}
               THEN probes[k].addr = A[1]
               ELSE LET before == CHOOSE j \in earlier : \A i \in earlier : i <= j
                        at == CHOOSE i \in DOMAIN A : A[i] = probes[before].addr
                    IN  probes[k].addr = A[(at % Len(A)) + 1]

\* C27 as stated: ping_pretty issues its probes round-robin by host, each host's
\* probes cycling through its addresses in order, and with count = c it has issued
\* exactly c * H probes, c to each host, when it returns.
C27_ExactlyCountPerHost ==
    /\ RoundRobin
    /\ (pc = "returned" /\ args.count # None) =>
           /\ Len(probes) = args.count * Len(hostnames)
           /\ \A h \in DOMAIN hostnames : Cardinality(ToHost(h)) = args.count

\* C27 (amended): ping_pretty issues its probes round-robin by host, each host's
\* probes cycling through its addresses in order.  With count = c it never issues
\* more than c * H probes; with count = c and no duration it has issued exactly
\* c * H probes, c to each host, when it returns.
C27_RoundRobinUpToCount ==
    /\ RoundRobin
    /\ args.count # None => Len(probes) <= args.count * Len(hostnames)
    /\ (pc = "returned" /\ args.count # None /\ args.duration = None) =>
           /\ Len(probes) = args.count * Len(hostnames)
           /\ \A h \in DOMAIN hostnames : Cardinality(ToHost(h)) = args.count

\* Two hosts were probed twice each, the first host at both of its addresses
C27_Witness ==
    /\ pc = "returned"
    /\ Len(hostnames) = 2
    /\ args.count = 2
    /\ args.duration = None
    /\ Len(probes) = 4
    /\ probes[1].addr # probes[3].addr
    /\ probes[2].addr = probes[4].addr

\* ping_pretty has returned with every probe it issued ended by the engine, and with
\* no window its summary counts each of them under a terminal status
ReturnedAfterProbes ==
    pc = "returned" =>
        /\ \A p \in DOMAIN probes : probes[p].status \in EndStatus
        /\ in_flight = {}
        /\ Returned
        /\ statistics.window = None =>
               LET c == read.summary.status_count
               IN  /\ c[PENDING] = 0
                   /\ c[SUCCESS] + c[UNREACHABLE] + c[TIMEOUT] = Len(probes)
                   /\ c[CANCELED] = 0

\* C28: run with a count or a duration and a timeout, ping_pretty terminates, and it
\* returns only after every probe it issued has reached a terminal status: at return
\* no probe is PENDING, none was CANCELED by the shutdown of the engine, and with no
\* window the summary has PENDING = 0 and terminal counts that add up to the number
\* of probes issued.
C28_ReturnsAfterEveryProbe ==
    /\ <>(pc = "returned")
    /\ []ReturnedAfterProbes

\* A run without window over two hosts returned after a lost probe and an answered one
C28_Witness ==
    /\ pc = "returned"
    /\ statistics.window = None
    /\ Len(probes) >= 2
    /\ \E p, q \in DOMAIN probes : probes[p].status = TIMEOUT /\ probes[q].status = SUCCESS
    /\ read.summary.status_count[TIMEOUT] >= 1

\* C29: the pause between two consecutive probes of ping_pretty is the base interval
\* (the interval supplied, else 5 ms in flood mode and 250 ms otherwise) divided by
\* the number of hosts, so that each host is probed once per base interval.
C29_PauseDividedByHosts ==
    /\ pc = "sleep" => pause * Len(hostnames) = interval
    /\ \A k \in DOMAIN probes :
           k > Len(hostnames) =>
               probes[k].start - probes[k - Len(hostnames)].start = interval

----------------------------------------------------------------------------
(* Properties of NDT7Statistics *)

\* C30: with the window unset, after any sequence of update calls the list of every
\* group has at most 2 elements: the first measurement ever inserted into that group
\* and the most recently inserted one.
C30_FirstAndLatest ==
    stats_window = None =>
        \A g \in DOMAIN groups :
            /\ Len(groups[g]) \in {1, 2}
            /\ groups[g][1] = inserted[g][1]
            /\ groups[g][Len(groups[g])] = inserted[g][Len(inserted[g])]
            /\ Len(groups[g]) = 2 <=> Len(inserted[g]) >= 2

\* Three measurements went into one group without window and one into the other
C30_Witness ==
    /\ stats_window = None
    /\ DOMAIN groups = Direction
    /\ Len(inserted[download]) = 3
    /\ Len(groups[download]) = 2
    /\ groups[download][2] = updated.returned

\* measurement[...]["ElapsedTime"] of the sub-record time_difference reads first
ElapsedTime_us(m) ==
    IF In(m, "AppInfo") THEN heap[m.AppInfo].ElapsedTime ELSE heap[m.TCPInfo].ElapsedTime

\* Two measurements that hold a sub-record in common
Shares(a, b) ==
    \/ In(a, "AppInfo") /\ In(b, "AppInfo")
    \/ In(a, "TCPInfo") /\ In(b, "TCPInfo")

\* The group got exactly the measurements of the sliding-window scenario, in order,
\* into an aggregator of window 1 s
SlidingWindowScenario(g) ==
    /\ stats_window = StatsWindow
    /\ g \in DOMAIN inserted
    /\ Len(inserted[g]) = 4
    /\ ElapsedTime_us(inserted[g][1]) = 0
    /\ ElapsedTime_us(inserted[g][2]) = 100000
    /\ ElapsedTime_us(inserted[g][3]) = 200000
    /\ ElapsedTime_us(inserted[g][4]) = 5100000
    /\ \A i, j \in 1..4 : Shares(inserted[g][i], inserted[g][j])

\* C31: with window W = 1 s, inserting measurements with ElapsedTime_us = 0, 100000,
\* 200000 and 5100000 into one group leaves, after the last insert, a group of
\* length 2 whose first element has ElapsedTime_us >= 4100000.
C31_FirstWithinWindow ==
    \A g \in Direction :
        SlidingWindowScenario(g) =>
            /\ Len(groups[g]) = 2
            /\ ElapsedTime_us(groups[g][1]) >= 4100000

\* C31 as the code has it: the group is left with the two last measurements, the
\* one of 200000 and the one of 5100000.
C31_TwoLatestKept ==
    \A g \in Direction :
        SlidingWindowScenario(g) =>
            /\ Len(groups[g]) = 2
            /\ groups[g] = SubSeq(inserted[g], 3, 4)
            /\ ElapsedTime_us(groups[g][1]) = 200000
            /\ ElapsedTime_us(groups[g][2]) = 5100000

\* The four measurements of the scenario went into the download group
C31_Witness ==
    /\ SlidingWindowScenario(download)
    /\ updated.group = download
    /\ updated.returned = inserted[download][4]

\* s is what is left of t when elements are dropped from its head
IsSuffix(s, t) ==
    /\ Len(s) <= Len(t)
    /\ s = SubSeq(t, Len(t) - Len(s) + 1, Len(t))

\* C32: with a window W set, after every update the group's list is non-empty, its
\* last element is the measurement just inserted, and either it has at most 2
\* elements or time_difference(list[1], list[-1]) < W; elements are only dropped from
\* the head, so the list is a contiguous suffix of the insertion history.
C32_WindowKeepsSuffix ==
    stats_window # None =>
        \A g \in DOMAIN groups :
            /\ Len(groups[g]) >= 1
            /\ IsSuffix(groups[g], inserted[g])
            /\ \/ Len(groups[g]) <= 2
               \/ time_difference(heap, groups[g][2], groups[g][Len(groups[g])]) < stats_window
            /\ g = updated.group => groups[g][Len(groups[g])] = updated.returned

\* A group under a window lost its head and keeps three measurements
C32_Witness ==
    /\ stats_window # None
    /\ updated.group = download
    /\ Len(inserted[download]) = 4
    /\ Len(groups[download]) = 3

\* before of line 55, read in the state update leaves behind
Reference ==
    IF Len(groups[updated.group]) > 1
    THEN groups[updated.group][1]
    ELSE INITIAL_MEASUREMENT

\* What update wrote into the sub-record `key` of the measurement it returned
Annotated(key) ==
    LET m == updated.returned
        a == heap[m[key]]
        b == heap[Reference[key]]
    IN  /\ In(m, key) /\ In(Reference, key) =>
               /\ a.Delta = [ElapsedTime |-> a.ElapsedTime - b.ElapsedTime,
                             NumBytes |-> a.NumBytes - b.NumBytes]
               /\ IF a.Delta.ElapsedTime > rate_threshold
                  THEN a.Rate = Rate(a.Delta, key)
                  ELSE a.Rate = [unset |-> TRUE]
        /\ In(m, key) /\ ~In(Reference, key) =>
               /\ a.Delta = [unset |-> TRUE]
               /\ a.Rate = [unset |-> TRUE]

\* C33: update returns the inserted measurement annotated, for AppInfo and for
\* TCPInfo when the sub-record is in both measurements, with Delta = its counters
\* minus those of the reference, which is the group's first element after trimming
\* or INITIAL_MEASUREMENT when the group holds only the new measurement; Rate =
\* Delta / elapsed time is attached only when the elapsed Delta is above 10 ms.
C33_DeltaAndRate ==
    updated.group # "" =>
        /\ updated.returned = groups[updated.group][Len(groups[updated.group])]
        /\ updated.returned.AppInfo = updated.passed.AppInfo
        /\ updated.returned.TCPInfo = updated.passed.TCPInfo
        /\ Annotated("AppInfo")
        /\ Annotated("TCPInfo")

\* update returned a measurement with a Rate over the group's first element, which
\* is not the measurement before it
C33_Witness ==
    /\ updated.group = download
    /\ Len(inserted[download]) = 3
    /\ Reference = inserted[download][1]
    /\ In(updated.returned, "TCPInfo") /\ In(Reference, "TCPInfo")
    /\ heap[updated.returned.TCPInfo].Rate # [unset |-> TRUE]
    /\ heap[updated.returned.TCPInfo].Delta.ElapsedTime > rate_threshold

\* The sub-records of the measurement the caller passed are as the caller made them
CallerMeasurementIntact ==
    updated.group # "" =>
        \A key \in {"AppInfo", "TCPInfo"} :
            In(updated.passed, key) =>
                /\ heap[updated.passed[key]].Delta = [unset |-> TRUE]
                /\ heap[updated.passed[key]].Rate = [unset |-> TRUE]

\* The measurement passed to both aggregators carries what each computes alone
SameAsAlone ==
    alone.shared =>
        /\ SubRecords(heap, alone.passed) = alone.first
        /\ SubRecords(heap, alone.passed) = alone.second

\* A call of update leaves the lists of the groups it was not called for as they were,
\* in both aggregators
OtherGroupsUntouched ==
    /\ \A g \in DOMAIN groups : g # updated'.group => groups'[g] = groups[g]
    /\ \A g \in DOMAIN second : g # updated'.group => second'[g] = second[g]

\* C40: update has no effect outside the group it is called for: the measurement the
\* caller passed, its AppInfo and TCPInfo sub-records included, is not modified, the
\* lists of all other groups are unchanged, and the same measurement fed to two
\* aggregators gets from each the Delta and Rate it would compute alone.
C40_NoEffectOutsideGroup ==
    /\ [](CallerMeasurementIntact /\ SameAsAlone)
    /\ [][OtherGroupsUntouched]_vars

====
